---------------------------- MODULE Spec2Model ----------------------------
(***************************************************************************)
(* A model of the analysis core of trainingpeaks-cli (tp_cli): the zone    *)
(* classifier, the workout-type classifier, the zone-distance decomposer,  *)
(* the DSL compiler, the duration/distance estimator and the reporters.    *)
(*                                                                         *)
(* Python floats are modelled as exact rationals <<num, den>> (den > 0,    *)
(* lowest terms); Python strings as sequences of one-character strings.    *)
(* Every component has one variable holding the locals of the function it  *)
(* models and the position of its loop; a specification per component      *)
(* draws the inputs in its initial states and runs the function.           *)
(***************************************************************************)
EXTENDS Integers, Sequences, FiniteSets, TLC

VARIABLES zc, wk, cw, pz, dsl, est, az, ch, rq, lg, up, bw, ap, fw

vars == <<zc, wk, cw, pz, dsl, est, az, ch, rq, lg, up, bw, ap, fw>>

(***************************************************************************)
(* Exact rationals standing for Python floats.                             *)
(***************************************************************************)
Abs(n) == IF n < 0 THEN -n ELSE n

RECURSIVE GCD(_, _)
GCD(a, b) == IF b = 0 THEN a ELSE GCD(b, a % b)

Rat(n, d) == LET g == GCD(Abs(n), d) IN <<n \div g, d \div g>>

R(n) == <<n, 1>>
RAdd(a, b) ==
  LET g == GCD(a[2], b[2])
  IN Rat(a[1] * (b[2] \div g) + b[1] * (a[2] \div g), (a[2] \div g) * b[2])
RSub(a, b) == RAdd(a, <<-b[1], b[2]>>)
RMul(a, b) ==
  LET g1 == GCD(Abs(a[1]), b[2])
      g2 == GCD(Abs(b[1]), a[2])
  IN <<(a[1] \div g1) * (b[1] \div g2), (a[2] \div g2) * (b[2] \div g1)>>
\* a / b for b # 0
RDiv(a, b) == IF b[1] > 0 THEN RMul(a, <<b[2], b[1]>>)
                          ELSE RMul(a, <<-b[2], -b[1]>>)
RLe(a, b) ==
  LET g == GCD(a[2], b[2]) IN a[1] * (b[2] \div g) <= b[1] * (a[2] \div g)
RLt(a, b) ==
  LET g == GCD(a[2], b[2]) IN a[1] * (b[2] \div g) < b[1] * (a[2] \div g)
RPos(a) == a[1] > 0
RZero == <<0, 1>>
\* int(x) of Python: truncation toward zero
RTrunc(a) == IF a[1] >= 0 THEN a[1] \div a[2] ELSE -((-a[1]) \div a[2])

(***************************************************************************)
(* Python strings: str.lower() and str.strip().                            *)
(***************************************************************************)
UpperChars == <<"A","B","C","D","E","F","G","H","I","J","K","L","M",
                "N","O","P","Q","R","S","T","U","V","W","X","Y","Z">>
LowerChars == <<"a","b","c","d","e","f","g","h","i","j","k","l","m",
                "n","o","p","q","r","s","t","u","v","w","x","y","z">>
Whitespace == {" ", "\t", "\n"}

LowerChar(c) ==
  IF \E i \in 1..Len(UpperChars) : UpperChars[i] = c
  THEN LowerChars[CHOOSE i \in 1..Len(UpperChars) : UpperChars[i] = c]
  ELSE c

\* str.lower()
Lower(s) == [i \in 1..Len(s) |-> LowerChar(s[i])]

\* str.strip(): leading and trailing whitespace removed
Strip(s) ==
  LET nonws == {i \in 1..Len(s) : s[i] \notin Whitespace}
  IN IF nonws = {} THEN <<>>
     ELSE LET lo == CHOOSE i \in nonws : \A j \in nonws : i <= j
              hi == CHOOSE i \in nonws : \A j \in nonws : i >= j
          IN SubSeq(s, lo, hi)

\* `needle in text` of Python
IsSubstr(needle, text) ==
  \E i \in 1..(Len(text) - Len(needle) + 1) :
     SubSeq(text, i, i + Len(needle) - 1) = needle

(***************************************************************************)
(* core/constants.py and core/classify.py: zone classifier                 *)
(***************************************************************************)
DEFAULT_ZONE_THRESHOLDS == [easy_max |-> 75, lt1_max |-> 93, lt2_max |-> 100]

S_rampup == <<"r","a","m","p","u","p">>
S_warmup == <<"w","a","r","m","u","p">>
S_cooldown == <<"c","o","o","l","d","o","w","n">>
S_rest == <<"r","e","s","t">>
S_recovery == <<"r","e","c","o","v","e","r","y">>
S_active == <<"a","c","t","i","v","e">>
S_step == <<"s","t","e","p">>
S_repetition == <<"r","e","p","e","t","i","t","i","o","n">>
S_easy == <<"e","a","s","y">>
S_lt1 == <<"l","t","1">>
S_lt2 == <<"l","t","2">>
S_vo2 == <<"v","o","2">>
S_race == <<"r","a","c","e">>
S_test == <<"t","e","s","t">>
S_sprint == <<"s","p","r","i","n","t">>
S_long == <<"l","o","n","g">>
S_strength == <<"s","t","r","e","n","g","t","h">>
S_other == <<"o","t","h","e","r">>
S_second == <<"s","e","c","o","n","d">>
S_minute == <<"m","i","n","u","t","e">>
S_hour == <<"h","o","u","r">>
S_meter == <<"m","e","t","e","r">>
S_kilometer == <<"k","i","l","o","m","e","t","e","r">>
S_fartlek == <<"f","a","r","t","l","e","k">>
S_tempo == <<"t","e","m","p","o">>
S_steady == <<"s","t","e","a","d","y">>
S_rampUp == <<"r","a","m","p","U","p">>
S_warmUp == <<"w","a","r","m","U","p">>

EASY_CLASSES == {S_warmup, S_cooldown, S_rest, S_recovery}

\* the mutant of classify_zone: boundaries exclusive on the lower zone
classify_zone_exclusive(pct, block_type, intensity_class, thresholds) ==
  IF Lower(Strip(block_type)) = S_rampup THEN S_easy
  ELSE IF Lower(Strip(intensity_class)) \in EASY_CLASSES THEN S_easy
  ELSE IF RLt(pct, R(thresholds.easy_max)) THEN S_easy
  ELSE IF RLt(pct, R(thresholds.lt1_max)) THEN S_lt1
  ELSE IF RLt(pct, R(thresholds.lt2_max)) THEN S_lt2
  ELSE S_vo2

classify_zone(pct, block_type, intensity_class, thresholds) ==
  IF Lower(Strip(block_type)) = S_rampup THEN S_easy
  ELSE IF Lower(Strip(intensity_class)) \in EASY_CLASSES THEN S_easy
  ELSE IF RLe(pct, R(thresholds.easy_max)) THEN S_easy
  ELSE IF RLe(pct, R(thresholds.lt1_max)) THEN S_lt1
  ELSE IF RLe(pct, R(thresholds.lt2_max)) THEN S_lt2
  ELSE S_vo2

(***************************************************************************)
(* JSON values as the code reads them.  A value that may be a number is    *)
(* [t, v]: t = "none" for null/absent, "num" for a number (v, a rational), *)
(* "str" for a non-empty string that float() rejects.                      *)
(***************************************************************************)
Null == [t |-> "none", v |-> RZero]
Num(r) == [t |-> "num", v |-> r]
NaS == [t |-> "str", v |-> RZero]

\* truthiness of a JSON value (`x or default`)
Truthy(x) == x.t = "str" \/ (x.t = "num" /\ x.v # RZero)

\* a target of a step
Tgt(mn, mx) == [isDict |-> TRUE, minValue |-> mn, maxValue |-> mx, value |-> Null]
\* a step: a dict without a "steps" key
StepItem(len_value, len_unit, targets, cls) ==
  [isDict |-> TRUE, hasSteps |-> FALSE, type |-> <<>>,
   length |-> [value |-> len_value, unit |-> len_unit],
   steps |-> <<>>, targets |-> targets, intensityClass |-> cls]
\* a block: a dict with a "steps" key (type <<>> when the key is absent)
BlockItem(type, len_value, steps) ==
  [isDict |-> TRUE, hasSteps |-> TRUE, type |-> type,
   length |-> [value |-> len_value, unit |-> S_repetition],
   steps |-> steps, targets |-> <<>>, intensityClass |-> <<>>]
\* a list element that is not a dict
ScalarItem ==
  [isDict |-> FALSE, hasSteps |-> FALSE, type |-> <<>>,
   length |-> [value |-> Null, unit |-> <<>>],
   steps |-> <<>>, targets |-> <<>>, intensityClass |-> <<>>]

(***************************************************************************)
(* A structure payload (the value of structuredSteps, structuredWorkout or *)
(* structure): k = "none" (absent or null), "badjson" (a string that is    *)
(* not JSON), "dict" (an object with the lists `structure` and `steps`,    *)
(* <<>> when absent, empty or not a list), "list" (an array, `items`),     *)
(* "scalar" (any other JSON value).  isStr: given as a JSON string.        *)
(***************************************************************************)
NoPayload ==
  [k |-> "none", isStr |-> FALSE, metric |-> <<>>, structure |-> <<>>,
   steps |-> <<>>, items |-> <<>>]
BadJson == [NoPayload EXCEPT !.k = "badjson", !.isStr = TRUE]
ScalarPayload(isStr) == [NoPayload EXCEPT !.k = "scalar", !.isStr = isStr]
DictPayload(isStr, metric, structure, steps) ==
  [k |-> "dict", isStr |-> isStr, metric |-> metric, structure |-> structure,
   steps |-> steps, items |-> <<>>]
ListPayload(isStr, items) ==
  [k |-> "list", isStr |-> isStr, metric |-> <<>>, structure |-> <<>>,
   steps |-> <<>>, items |-> items]

(***************************************************************************)
(* core/constants.py: TYPE_RULES                                           *)
(***************************************************************************)
TYPE_RULES ==
  <<
    [type |-> <<"r","a","c","e">>,
     keywords |->
      << <<"r","a","c","e">>,
         <<"c","o","m","p","e","t","i","t","i","o","n">>,
         <<"e","v","e","n","t">>,
         <<"m","a","r","a","t","h","o","n">>,
         <<"t","r","i","a","t","h","l","o","n">>,
         <<"7","0",".","3">> >>],
    [type |-> <<"t","e","s","t">>,
     keywords |->
      << <<"t","e","s","t">>,
         <<"f","t","p"," ","t","e","s","t">>,
         <<"t","i","m","e"," ","t","r","i","a","l">>,
         <<"b","e","n","c","h","m","a","r","k">>,
         <<"r","a","m","p"," ","t","e","s","t">> >>],
    [type |-> <<"v","o","2">>,
     keywords |->
      << <<"v","o","2">>,
         <<"v","o","2","m","a","x">>,
         <<"z","o","n","e"," ","5">>,
         <<"z","5">> >>],
    [type |-> <<"s","p","r","i","n","t">>,
     keywords |->
      << <<"s","p","r","i","n","t">>,
         <<"a","n","a","e","r","o","b","i","c">>,
         <<"z","o","n","e"," ","6">>,
         <<"z","6">>,
         <<"n","e","u","r","o","m","u","s","c","u","l","a","r">>,
         <<"2","0","/","4","0">> >>],
    [type |-> <<"l","t","2">>,
     keywords |->
      << <<"l","t","2">>,
         <<"l","a","c","t","a","t","e"," ","t","h","r","e","s","h","o","l","d">>,
         <<"t","h","r","e","s","h","o","l","d">>,
         <<"z","o","n","e"," ","4">>,
         <<"z","4">>,
         <<"f","t","p">>,
         <<"o","v","e","r"," ","u","n","d","e","r">>,
         <<"s","w","e","e","t","s","p","o","t">>,
         <<"s","s","t">> >>],
    [type |-> <<"l","t","1">>,
     keywords |->
      << <<"l","t","1">>,
         <<"a","e","r","o","b","i","c"," ","t","h","r","e","s","h","o","l","d">>,
         <<"t","e","m","p","o">>,
         <<"z","o","n","e"," ","3">>,
         <<"z","3">>,
         <<"s","w","e","e","t"," ","s","p","o","t">> >>],
    [type |-> <<"l","o","n","g">>,
     keywords |->
      << <<"l","o","n","g"," ","r","u","n">>,
         <<"l","o","n","g"," ","r","i","d","e">>,
         <<"l","o","n","g"," ","s","w","i","m">>,
         <<"e","n","d","u","r","a","n","c","e"," ","l","o","n","g">>,
         <<"w","e","e","k","e","n","d"," ","l","o","n","g">> >>],
    [type |-> <<"s","t","r","e","n","g","t","h">>,
     keywords |->
      << <<"s","t","r","e","n","g","t","h">>,
         <<"g","y","m">>,
         <<"w","e","i","g","h","t","s">>,
         <<"d","r","y","l","a","n","d">>,
         <<"c","o","r","e">> >>],
    [type |-> <<"e","a","s","y">>,
     keywords |->
      << <<"e","a","s","y">>,
         <<"r","e","c","o","v","e","r","y">>,
         <<"e","n","d","u","r","a","n","c","e">>,
         <<"z","o","n","e"," ","1">>,
         <<"z","o","n","e"," ","2">>,
         <<"z","1">>,
         <<"z","2">>,
         <<"b","a","s","e"," ","z","2">>,
         <<"w","a","r","m"," ","d","o","w","n">>,
         <<"s","p","i","n">>,
         <<"t","e","c","h","n","i","q","u","e">> >>]
  >>

WORKOUT_TYPES ==
  {S_easy, S_lt1, S_lt2, S_vo2, S_race, S_test, S_sprint, S_long, S_strength,
   S_other}

(***************************************************************************)
(* core/classify.py: the workout-type classifier                           *)
(***************************************************************************)
PRIORITY_KEYWORD_TYPES == {S_race, S_test, S_strength, S_long, S_sprint}

normalized_text(workout) ==
  Lower(workout.title \o <<" ">> \o workout.description \o <<" ">>
        \o workout.coachComments \o <<" ">> \o workout.userTags)

RuleMatches(rule, text) ==
  \E j \in 1..Len(rule.keywords) : IsSubstr(rule.keywords[j], text)

\* the mutant of classify_by_keywords: the last matching rule wins
classify_by_keywords_last(workout, rules) ==
  LET text == normalized_text(workout)
      hits == {i \in 1..Len(rules) : RuleMatches(rules[i], text)}
  IN IF hits = {} THEN S_other
     ELSE rules[CHOOSE i \in hits : \A j \in hits : j <= i].type

classify_by_keywords(workout, rules) ==
  LET text == normalized_text(workout)
      hits == {i \in 1..Len(rules) : RuleMatches(rules[i], text)}
  IN IF hits = {} THEN S_other
     ELSE rules[CHOOSE i \in hits : \A j \in hits : i <= j].type

\* None, or the decoded value
parse_structure_value(raw) ==
  IF raw.k = "none" THEN NoPayload
  ELSE IF raw.isStr THEN (IF raw.k = "badjson" THEN NoPayload ELSE raw)
  ELSE raw

IsDictItem(b) == b.isDict

normalize_blocks(raw_blocks) ==
  LET dict_blocks == SelectSeq(raw_blocks, IsDictItem)
  IN IF dict_blocks = <<>> THEN <<>>
     ELSE IF \A i \in 1..Len(dict_blocks) : ~dict_blocks[i].hasSteps
          THEN << BlockItem(S_step, Num(R(1)), dict_blocks) >>
          ELSE dict_blocks

\* the blocks of one payload; <<>> when the loop goes on to the next key
PayloadBlocks(raw) ==
  LET parsed == parse_structure_value(raw)
  IN IF parsed.k = "none" THEN <<>>
     ELSE IF parsed.k = "dict"
          THEN normalize_blocks(IF parsed.structure # <<>> THEN parsed.structure
                                ELSE parsed.steps)
          ELSE IF parsed.k = "list" THEN normalize_blocks(parsed.items)
          ELSE <<>>

\* the blocks _extract_structure returns (its metric is not used by callers)
extract_structure(workout) ==
  IF PayloadBlocks(workout.structuredSteps) # <<>>
  THEN PayloadBlocks(workout.structuredSteps)
  ELSE IF PayloadBlocks(workout.structuredWorkout) # <<>>
       THEN PayloadBlocks(workout.structuredWorkout)
       ELSE PayloadBlocks(workout.structure)

as_percent(value) ==
  IF value.t # "num" THEN RZero
  ELSE IF ~RPos(value.v) THEN RZero
  ELSE IF RLe(value.v, R(2)) THEN RMul(value.v, R(100)) ELSE value.v

step_intensity_pct(step) ==
  IF step.targets = <<>> THEN RZero
  ELSE LET target == step.targets[1]
       IN IF ~target.isDict THEN RZero
          ELSE LET min_pct == as_percent(target.minValue)
                   max_pct == as_percent(target.maxValue)
               IN IF RPos(min_pct) /\ RPos(max_pct)
                  THEN RDiv(RAdd(min_pct, max_pct), R(2))
                  ELSE IF RPos(min_pct) THEN min_pct
                  ELSE IF RPos(max_pct) THEN max_pct
                  ELSE as_percent(target.value)

length_to_seconds(length) ==
  LET unit == Lower(length.unit)
      value == IF length.value.t = "num" THEN length.value.v ELSE RZero
  IN IF length.value.t = "str" THEN RZero
     ELSE IF ~RPos(value) THEN RZero
     ELSE IF unit = S_second THEN value
     ELSE IF unit = S_minute THEN RMul(value, R(60))
     ELSE IF unit = S_hour THEN RMul(value, R(3600))
     ELSE IF unit = S_meter THEN RDiv(value, R(4))
     ELSE IF unit = S_kilometer THEN RMul(value, R(250))
     ELSE RZero

Zones == {S_easy, S_lt1, S_lt2, S_vo2}

\* str(block.get("type") or "step")
BlockType(block) == IF block.type = <<>> THEN S_step ELSE block.type

\* rep_count of classify.py:179-184
RepCount(block) ==
  IF Lower(Strip(BlockType(block))) = S_repetition
  THEN IF block.length.value.t = "num" /\ block.length.value.v # RZero
       THEN RTrunc(block.length.value.v)
       ELSE 1
  ELSE 1

RMax(a, b) == IF RLt(a, b) THEN b ELSE a
IMax(a, b) == IF a < b THEN b ELSE a

\* the mutant of StructureStep: the repetition count is not applied
StructureStep_unweighted(acc, step, block_type, rep_count) ==
  LET pct == step_intensity_pct(step)
      zone == classify_zone(pct, block_type,
                IF step.intensityClass = <<>> THEN S_active ELSE step.intensityClass,
                DEFAULT_ZONE_THRESHOLDS)
      load0 == length_to_seconds(step.length)
      load == IF ~RPos(load0) /\ RPos(pct) THEN R(30) ELSE load0
  IN [zone_loads |-> [acc.zone_loads EXCEPT ![zone] = RAdd(@, load)],
      zone_counts |-> [acc.zone_counts EXCEPT
                         ![zone] = IF RPos(pct) THEN @ + 1 ELSE @],
      has_intensity_targets |-> acc.has_intensity_targets \/ RPos(pct),
      max_pct |-> IF RPos(pct) THEN RMax(acc.max_pct, pct) ELSE acc.max_pct]

\* one iteration of `for step in steps` (classify.py:192-209)
StructureStep(acc, step, block_type, rep_count) ==
  LET pct == step_intensity_pct(step)
      zone == classify_zone(pct, block_type,
                IF step.intensityClass = <<>> THEN S_active ELSE step.intensityClass,
                DEFAULT_ZONE_THRESHOLDS)
      load0 == RMul(length_to_seconds(step.length), R(IMax(rep_count, 1)))
      load == IF ~RPos(load0) /\ RPos(pct) THEN R(30) ELSE load0
  IN [zone_loads |-> [acc.zone_loads EXCEPT ![zone] = RAdd(@, load)],
      zone_counts |-> [acc.zone_counts EXCEPT
                         ![zone] = IF RPos(pct) THEN @ + 1 ELSE @],
      has_intensity_targets |-> acc.has_intensity_targets \/ RPos(pct),
      max_pct |-> IF RPos(pct) THEN RMax(acc.max_pct, pct) ELSE acc.max_pct]

RECURSIVE StructureSteps(_, _, _, _)
StructureSteps(acc, steps, block_type, rep_count) ==
  IF steps = <<>> THEN acc
  ELSE StructureSteps(StructureStep(acc, Head(steps), block_type, rep_count),
                      Tail(steps), block_type, rep_count)

RECURSIVE StructureBlocks(_, _)
StructureBlocks(acc, blocks) ==
  IF blocks = <<>> THEN acc
  ELSE LET block == Head(blocks)
       IN StructureBlocks(
            StructureSteps(acc, SelectSeq(block.steps, IsDictItem),
                           BlockType(block), RepCount(block)),
            Tail(blocks))

StructureAcc0 ==
  [zone_loads |-> [z \in Zones |-> RZero], zone_counts |-> [z \in Zones |-> 0],
   has_intensity_targets |-> FALSE, max_pct |-> RZero]

\* the mutant of StructureLadder: the lt2 rung is tried before the vo2 rung
StructureLadder_lt2_first(acc) ==
  LET vo2_load == acc.zone_loads[S_vo2]
      hard_load == RAdd(acc.zone_loads[S_lt2], vo2_load)
      lt1_load == acc.zone_loads[S_lt1]
  IN IF RLe(R(180), hard_load)
        \/ acc.zone_counts[S_lt2] + acc.zone_counts[S_vo2] >= 2
     THEN S_lt2
     ELSE IF RLe(R(180), vo2_load)
             \/ (acc.zone_counts[S_vo2] >= 2 /\ RLt(R(105), acc.max_pct))
          THEN S_vo2
          ELSE IF RLe(R(300), lt1_load) \/ acc.zone_counts[S_lt1] >= 2
               THEN S_lt1
               ELSE S_easy

\* the ladder of classify.py:214-224
StructureLadder(acc) ==
  LET vo2_load == acc.zone_loads[S_vo2]
      hard_load == RAdd(acc.zone_loads[S_lt2], vo2_load)
      lt1_load == acc.zone_loads[S_lt1]
  IN IF RLe(R(180), vo2_load)
        \/ (acc.zone_counts[S_vo2] >= 2 /\ RLt(R(105), acc.max_pct))
     THEN S_vo2
     ELSE IF RLe(R(180), hard_load)
             \/ acc.zone_counts[S_lt2] + acc.zone_counts[S_vo2] >= 2
          THEN S_lt2
          ELSE IF RLe(R(300), lt1_load) \/ acc.zone_counts[S_lt1] >= 2
               THEN S_lt1
               ELSE S_easy

\* <<>> stands for None
classify_from_structure(workout) ==
  LET blocks == extract_structure(workout)
  IN IF blocks = <<>> THEN <<>>
     ELSE LET acc == StructureBlocks(StructureAcc0, blocks)
          IN IF ~acc.has_intensity_targets THEN <<>> ELSE StructureLadder(acc)

\* the mutant of classify_with_source: any keyword label but other wins
classify_with_source_keyword_first(workout, rules) ==
  LET keyword_label == classify_by_keywords(workout, rules)
      structure_label == classify_from_structure(workout)
  IN IF keyword_label # S_other THEN [label |-> keyword_label, source |-> "keyword"]
     ELSE IF structure_label # <<>> THEN [label |-> structure_label, source |-> "structure"]
     ELSE [label |-> keyword_label, source |-> "keyword"]

\* the mutant of classify_with_source: the structure is consulted first
classify_with_source_structure_first(workout, rules) ==
  LET keyword_label == classify_by_keywords(workout, rules)
      structure_label == classify_from_structure(workout)
  IN IF structure_label # <<>> THEN [label |-> structure_label, source |-> "structure"]
     ELSE [label |-> keyword_label, source |-> "keyword"]

classify_with_source(workout, rules) ==
  LET keyword_label == classify_by_keywords(workout, rules)
      structure_label == classify_from_structure(workout)
  IN IF keyword_label \in PRIORITY_KEYWORD_TYPES
     THEN [label |-> keyword_label, source |-> "keyword"]
     ELSE IF structure_label # <<>> THEN [label |-> structure_label, source |-> "structure"]
     ELSE [label |-> keyword_label, source |-> "keyword"]

classify_workout(workout, rules) == classify_with_source(workout, rules).label

\* confidence in hundredths
classify_with_metadata(workout, method, rules) ==
  LET ls == classify_with_source(workout, rules)
  IN IF method = "ai"
     THEN [type |-> ls.label, method |-> "auto", confidence |-> 60,
           reasoning |-> "AI classification not configured; fell back to rules"]
     ELSE [type |-> ls.label, method |-> "auto",
           confidence |-> IF ls.source = "structure" THEN 97
                          ELSE IF ls.label # S_other THEN 95 ELSE 60,
           reasoning |-> IF ls.source = "structure"
                         THEN "classified from structured workout intensity targets"
                         ELSE "None"]

(***************************************************************************)
(* classification_rules_from_config.  The configured rules are the items   *)
(* of the dict in insertion order: <<key, value>> with value               *)
(* [iterable, items]: a list of keyword strings, or a value that is not    *)
(* iterable (a number).                                                    *)
(***************************************************************************)
RECURSIVE ConfiguredRules(_)
ConfiguredRules(configured) ==
  IF configured = <<>> THEN <<>>
  ELSE LET key == Head(configured)[1]
           value == Head(configured)[2]
       IN (IF value.iterable
           THEN << [type |-> key,
                    keywords |-> [i \in 1..Len(value.items) |-> Lower(value.items[i])]] >>
           ELSE <<>>)
          \o ConfiguredRules(Tail(configured))

classification_rules_from_config(config) ==
  IF config = <<>> THEN TYPE_RULES
  ELSE IF ConfiguredRules(config) = <<>> THEN TYPE_RULES
  ELSE ConfiguredRules(config)

(***************************************************************************)
(* core/analysis.py: the zone-distance decomposer.  A call either returns  *)
(* or raises; the result is [raised, zones, total] with raised = "" for a  *)
(* normal return and the exception's name otherwise.                       *)
(***************************************************************************)
S_percentOfThresholdPace ==
  <<"p","e","r","c","e","n","t","O","f","T","h","r","e","s","h","o","l","d","P","a","c","e">>
S_percentOfFtp == <<"p","e","r","c","e","n","t","O","f","F","t","p">>
S_percentOfThresholdHr ==
  <<"p","e","r","c","e","n","t","O","f","T","h","r","e","s","h","o","l","d","H","r">>

PercentMetrics == {S_percentOfThresholdPace, S_percentOfFtp, S_percentOfThresholdHr}

ZeroZones == [z \in Zones |-> RZero]
AllEasy(distance) == [ZeroZones EXCEPT ![S_easy] = distance]

Returned(zones, total) == [raised |-> "", zones |-> zones, total |-> total]
Raised(exc) == [raised |-> exc, zones |-> ZeroZones, total |-> RZero]

\* float(x or 0) raises ValueError on a non-numeric string
FloatOrZeroRaises(x) == x.t = "str"
FloatOrZero(x) == IF x.t = "num" THEN x.v ELSE RZero

\* float(x or dflt) for a rational default
FloatOr(x, dflt) == IF Truthy(x) THEN x.v ELSE dflt

\* the first target of a step: targets[0] if targets else {}
NoTarget == [isDict |-> TRUE, minValue |-> Null, maxValue |-> Null, value |-> Null]
FirstTarget(step) == IF step.targets = <<>> THEN NoTarget ELSE Head(step.targets)

\* pct of analysis.py:247-249
StepPct(step) ==
  LET target == FirstTarget(step)
      min_value == FloatOrZero(target.minValue)
      max_value == FloatOr(target.maxValue, min_value)
  IN IF RLt(min_value, max_value) THEN RDiv(RAdd(min_value, max_value), R(2))
     ELSE min_value

StepRaises(step) ==
  \/ ~step.isDict
  \/ FloatOrZeroRaises(step.length.value)
  \/ ~FirstTarget(step).isDict
  \/ FloatOrZeroRaises(FirstTarget(step).minValue)
  \/ FloatOrZeroRaises(FirstTarget(step).maxValue)

\* the raw distance of _step_distance_raw
step_distance_raw(step, threshold_speed) ==
  LET value == FloatOrZero(step.length.value)
      pct == StepPct(step)
      speed == IF RPos(pct) THEN RMul(threshold_speed, RDiv(pct, R(100)))
               ELSE RMul(threshold_speed, Rat(7, 10))
  IN IF step.length.unit = S_meter THEN value
     ELSE IF step.length.unit = S_second THEN RMul(value, speed)
     ELSE RZero

\* block.get("type", "step")
PzBlockType(block) == IF block.type = <<>> THEN S_step ELSE block.type

\* int(block.get("length", {}).get("value", 1) if type == "repetition" else 1)
PzRepCount(block) ==
  IF PzBlockType(block) = S_repetition /\ block.length.value.t = "num"
  THEN RTrunc(block.length.value.v)
  ELSE 1

PzBlockRaises(block) ==
  \/ ~block.isDict
  \/ PzBlockType(block) = S_repetition /\ block.length.value.t = "str"
  \/ \E i \in 1..Len(block.steps) : StepRaises(block.steps[i])

\* the mutant of PzStep: the repetition count is not applied
PzStep_once(zones, step, block, threshold_speed, thresholds) ==
  LET zone == classify_zone(StepPct(step), PzBlockType(block),
                IF step.intensityClass = <<>> THEN S_active ELSE step.intensityClass,
                thresholds)
  IN [zones EXCEPT ![zone] = RAdd(@, step_distance_raw(step, threshold_speed))]

\* one iteration of `for step in block.get("steps", [])` (analysis.py:287-295)
PzStep(zones, step, block, threshold_speed, thresholds) ==
  LET zone == classify_zone(StepPct(step), PzBlockType(block),
                IF step.intensityClass = <<>> THEN S_active ELSE step.intensityClass,
                thresholds)
  IN [zones EXCEPT ![zone] =
        RAdd(@, RMul(step_distance_raw(step, threshold_speed), R(PzRepCount(block))))]

RECURSIVE PzSteps(_, _, _, _, _)
PzSteps(zones, steps, block, threshold_speed, thresholds) ==
  IF steps = <<>> THEN zones
  ELSE PzSteps(PzStep(zones, Head(steps), block, threshold_speed, thresholds),
               Tail(steps), block, threshold_speed, thresholds)

RECURSIVE PzBlocks(_, _, _, _)
PzBlocks(zones, blocks, threshold_speed, thresholds) ==
  IF blocks = <<>> THEN zones
  ELSE PzBlocks(PzSteps(zones, Head(blocks).steps, Head(blocks), threshold_speed,
                        thresholds),
                Tail(blocks), threshold_speed, thresholds)

ZoneSum(zones) ==
  RAdd(RAdd(zones[S_easy], zones[S_lt1]), RAdd(zones[S_lt2], zones[S_vo2]))

\* `not structure`: None, an empty dict or list.  (An empty string takes the
\* same return as a string that is not JSON; the text "null" is truthy.)
StructureFalsy(raw) ==
  \/ raw.k = "none" /\ ~raw.isStr
  \/ ~raw.isStr /\ raw.k = "dict" /\ raw.metric = <<>> /\ raw.structure = <<>>
       /\ raw.steps = <<>>
  \/ ~raw.isStr /\ raw.k = "list" /\ raw.items = <<>>

\* the zones before rescaling (analysis.py:282-295)
RawZones(workout, threshold_speed, thresholds) ==
  PzBlocks(ZeroZones, workout.structure.structure, threshold_speed, thresholds)

\* the mutant of PzFinish: the zones are returned without rescaling
PzFinish_unscaled(zones, actual_distance) ==
  LET raw_total == ZoneSum(zones)
  IN IF RPos(raw_total) /\ RPos(actual_distance)
     THEN Returned(zones, actual_distance)
     ELSE IF RPos(actual_distance) /\ raw_total = RZero
          THEN Returned(AllEasy(actual_distance), actual_distance)
          ELSE Returned(zones, raw_total)

\* analysis.py:297-308
PzFinish(zones, actual_distance) ==
  LET raw_total == ZoneSum(zones)
  IN IF RPos(raw_total) /\ RPos(actual_distance)
     THEN Returned([z \in Zones |->
                      RMul(zones[z], RDiv(actual_distance, raw_total))],
                   actual_distance)
     ELSE IF RPos(actual_distance) /\ raw_total = RZero
          THEN Returned(AllEasy(actual_distance), actual_distance)
          ELSE Returned(zones, raw_total)

\* the mutant of PzFallback: the fallback loses the distance
PzFallback_zero(workout) ==
  IF FloatOrZeroRaises(workout.distance) THEN Raised("ValueError")
  ELSE Returned(ZeroZones, FloatOrZero(workout.distance))

\* the all-easy return of analysis.py:267-268, 274-275, 279-280
PzFallback(workout) ==
  IF FloatOrZeroRaises(workout.distance) THEN Raised("ValueError")
  ELSE Returned(AllEasy(FloatOrZero(workout.distance)), FloatOrZero(workout.distance))

parse_workout_zones(workout, threshold_speed, thresholds) ==
  LET structure == workout.structure
  IN IF StructureFalsy(structure) THEN PzFallback(workout)
     ELSE IF structure.isStr /\ structure.k = "badjson" THEN PzFallback(workout)
     ELSE IF structure.k # "dict" THEN Raised("AttributeError")
     ELSE IF structure.metric \notin PercentMetrics THEN PzFallback(workout)
     ELSE IF \E i \in 1..Len(structure.structure) :
                PzBlockRaises(structure.structure[i])
          THEN Raised("Error")
          ELSE IF FloatOrZeroRaises(workout.distance) THEN Raised("ValueError")
          ELSE PzFinish(RawZones(workout, threshold_speed, thresholds),
                        FloatOrZero(workout.distance))

(***************************************************************************)
(* core/analysis.py: classify_week                                         *)
(***************************************************************************)
\* delta_pct is [none |-> TRUE] for None or [none |-> FALSE, v |-> rational]
NoDelta == [none |-> TRUE, v |-> RZero]
SomeDelta(r) == [none |-> FALSE, v |-> r]

\* the mutant of classify_week: the off rule tested before the race rule
classify_week_off_first(total_distance, total_sessions, has_race, delta_pct) ==
  IF total_sessions <= 2 /\ RLt(total_distance, R(20000)) THEN "off"
  ELSE IF has_race THEN "race"
  ELSE IF delta_pct.none THEN "start"
  ELSE IF RLt(delta_pct.v, R(-25)) THEN "recovery"
  ELSE IF RLt(R(15), delta_pct.v) THEN "build"
  ELSE "maintenance"

classify_week(total_distance, total_sessions, has_race, delta_pct) ==
  IF has_race THEN "race"
  ELSE IF total_sessions <= 2 /\ RLt(total_distance, R(20000)) THEN "off"
  ELSE IF delta_pct.none THEN "start"
  ELSE IF RLt(delta_pct.v, R(-25)) THEN "recovery"
  ELSE IF RLt(R(15), delta_pct.v) THEN "build"
  ELSE "maintenance"

(***************************************************************************)
(* utils/parsing.py: the length grammar, the target grammar and the DSL    *)
(* compiler.  int() and float() are modelled on decimal tokens (optional   *)
(* sign, digits, for float at most one point); any other token raises      *)
(* ValueError.  A key that a DSL entry does not have holds Absent.         *)
(***************************************************************************)
Digits == <<"0","1","2","3","4","5","6","7","8","9">>
IsDigit(c) == \E i \in 1..10 : Digits[i] = c
DigitVal(c) == (CHOOSE i \in 1..10 : Digits[i] = c) - 1

RECURSIVE DigitsVal(_)
DigitsVal(s) ==
  IF s = <<>> THEN 0
  ELSE DigitsVal(SubSeq(s, 1, Len(s) - 1)) * 10 + DigitVal(s[Len(s)])

AllDigits(s) == s # <<>> /\ \A i \in 1..Len(s) : IsDigit(s[i])

Signed(s) == s # <<>> /\ s[1] \in {"+", "-"}
Unsigned(s) == IF Signed(s) THEN Tail(s) ELSE s
SignOf(s) == IF s # <<>> /\ s[1] = "-" THEN -1 ELSE 1

\* int(str)
IntOk(s) == AllDigits(Unsigned(Strip(s)))
IntVal(s) == SignOf(Strip(s)) * DigitsVal(Unsigned(Strip(s)))

RECURSIVE Pow10(_)
Pow10(n) == IF n = 0 THEN 1 ELSE 10 * Pow10(n - 1)

\* float(str); the tokens of the model are decimals a float holds exactly
\* enough for int(float(x) * 1000) to be the exact product
FloatOk(s) ==
  LET u == Unsigned(Strip(s))
      points == {i \in 1..Len(u) : u[i] = "."}
  IN /\ Cardinality(points) <= 1
     /\ \A i \in 1..Len(u) : i \in points \/ IsDigit(u[i])
     /\ Len(u) > Cardinality(points)
FloatVal(s) ==
  LET u == Unsigned(Strip(s))
      points == {i \in 1..Len(u) : u[i] = "."}
      p == IF points = {} THEN Len(u) + 1 ELSE CHOOSE i \in points : TRUE
      whole == SubSeq(u, 1, p - 1)
      frac == SubSeq(u, p + 1, Len(u))
  IN Rat(SignOf(Strip(s)) * DigitsVal(whole \o frac), Pow10(Len(frac)))

EndsWith(s, suffix) ==
  Len(s) >= Len(suffix) /\ SubSeq(s, Len(s) - Len(suffix) + 1, Len(s)) = suffix

\* str.split(":")
RECURSIVE SplitColon(_)
SplitColon(s) ==
  LET colons == {i \in 1..Len(s) : s[i] = ":"}
  IN IF colons = {} THEN << s >>
     ELSE LET c == CHOOSE i \in colons : \A j \in colons : i <= j
          IN << SubSeq(s, 1, c - 1) >> \o SplitColon(SubSeq(s, c + 1, Len(s)))

S_Easy == <<"E","a","s","y">>
S_CoolDown == <<"C","o","o","l"," ","D","o","w","n">>
S_coolDown == <<"c","o","o","l","D","o","w","n">>
S_interval == <<"i","n","t","e","r","v","a","l">>
S_km == <<"k","m">>
S_m == <<"m">>

Absent == << "" >>
AbsentNum == [t |-> "absent", v |-> RZero]

Length(value, unit) == [raised |-> "", value |-> value, unit |-> unit]
LengthError(exc) == [raised |-> exc, value |-> 0, unit |-> <<>>]

\* parse_length: (value, unit), or the exception raised
parse_length(value) ==
  LET raw == Strip(value)
      parts == SplitColon(raw)
  IN IF EndsWith(raw, S_km)
     THEN (IF FloatOk(SubSeq(raw, 1, Len(raw) - 2))
           THEN Length(RTrunc(RMul(FloatVal(SubSeq(raw, 1, Len(raw) - 2)), R(1000))),
                       S_meter)
           ELSE LengthError("ValueError"))
     ELSE IF EndsWith(raw, S_m)
     THEN (IF FloatOk(SubSeq(raw, 1, Len(raw) - 1))
           THEN Length(RTrunc(FloatVal(SubSeq(raw, 1, Len(raw) - 1))), S_meter)
           ELSE LengthError("ValueError"))
     ELSE IF Len(parts) = 2
     THEN (IF IntOk(parts[1]) /\ IntOk(parts[2])
           THEN Length(IntVal(parts[1]) * 60 + IntVal(parts[2]), S_second)
           ELSE LengthError("ValueError"))
     ELSE IF Len(parts) = 3
     THEN (IF IntOk(parts[1]) /\ IntOk(parts[2]) /\ IntOk(parts[3])
           THEN Length(IntVal(parts[1]) * 3600 + IntVal(parts[2]) * 60
                       + IntVal(parts[3]), S_second)
           ELSE LengthError("ValueError"))
     ELSE IF IntOk(raw) THEN Length(IntVal(raw), S_second)
     ELSE LengthError("ValueError")

\* parse_duration: the value of parse_length, the unit dropped
parse_duration(value) == parse_length(value).value

\* the digits matched by (\d+) at the start of s
RECURSIVE LeadingDigits(_)
LeadingDigits(s) ==
  IF s # <<>> /\ IsDigit(s[1]) THEN << s[1] >> \o LeadingDigits(Tail(s))
  ELSE <<>>

\* re.match(r"(\d+)-(\d+)", s): whether it matches, and both groups as integers
RangeMatch(s) ==
  LET a == LeadingDigits(s)
      rest == SubSeq(s, Len(a) + 1, Len(s))
      b == IF rest # <<>> /\ rest[1] = "-" THEN LeadingDigits(Tail(rest)) ELSE <<>>
  IN [ok |-> a # <<>> /\ b # <<>>, lo |-> DigitsVal(a), hi |-> DigitsVal(b)]

\* `not value` for an optional string
NoText(value) == value = Absent \/ value = <<>>

\* parse_target: None, or the leading integer
parse_target(value) ==
  IF NoText(value) THEN Null
  ELSE IF LeadingDigits(value) = <<>> THEN Null
  ELSE Num(R(DigitsVal(LeadingDigits(value))))

\* step.get(key, default) for a string key
GetOr(value, default) == IF value = Absent THEN default ELSE value

\* a DSL entry; every key it lacks holds Absent (AbsentNum for reps)
NoEntry ==
  [type |-> Absent, duration |-> Absent, target |-> Absent, on |-> Absent,
   off |-> Absent, on_target |-> Absent, off_target |-> Absent,
   reps |-> AbsentNum, name |-> Absent, on_name |-> Absent, off_name |-> Absent]

\* a compiled step and a compiled block
DslStep(name, length, targets, cls) ==
  [name |-> name,
   length |-> [value |-> Num(R(length.value)), unit |-> length.unit],
   targets |-> targets, intensityClass |-> cls, openDuration |-> FALSE]
DslBlock(type, value, steps) ==
  [type |-> type, length |-> [value |-> value, unit |-> S_repetition],
   steps |-> steps]

\* [{"minValue": parse_target(t)}] if t else []
TargetList(target) ==
  IF NoText(target) THEN <<>> ELSE << Tgt(parse_target(target), Null) >>

\* on_targets of parsing.py:74-88
OnTargets(on_target) ==
  IF NoText(on_target) THEN <<>>
  ELSE IF RangeMatch(on_target).ok
       THEN << Tgt(Num(R(RangeMatch(on_target).lo)), Num(R(RangeMatch(on_target).hi))) >>
       ELSE IF parse_target(on_target) = Null THEN <<>>
            ELSE << Tgt(parse_target(on_target), Null) >>

\* the exception of step[key] followed by parse_length, "" when there is none
KeyLengthRaises(token) ==
  IF token = Absent THEN "KeyError" ELSE parse_length(token).raised

IntervalRaises(step) ==
  IF KeyLengthRaises(step.on) # "" THEN KeyLengthRaises(step.on)
  ELSE KeyLengthRaises(step.off)

\* the step appended to the pending warmup buffer (parsing.py:58-67)
WarmupStep(step, warmup_steps) ==
  DslStep(GetOr(step.name, <<>>), parse_length(step.duration),
          TargetList(step.target),
          IF warmup_steps = <<>> THEN S_warmUp ELSE S_active)

\* the mutant of Flush: the pending buffer is dropped
Flush_drop(blocks, warmup_steps) == blocks

\* the pending buffer flushed into one rampUp block (parsing.py:90-98,
\* 124-132, 169-176)
Flush(blocks, warmup_steps) ==
  IF warmup_steps = <<>> THEN blocks
  ELSE Append(blocks, DslBlock(S_rampUp, Num(R(1)), warmup_steps))

\* the mutant of IntervalBlock: the off leg is compiled as a second on leg
IntervalBlock_flat(step) ==
  DslBlock(S_repetition,
           IF step.reps = AbsentNum THEN Num(R(1)) ELSE step.reps,
           << DslStep(GetOr(step.on_name, GetOr(step.name, <<>>)),
                      parse_length(step.on), OnTargets(step.on_target), S_active),
              DslStep(GetOr(step.on_name, GetOr(step.name, <<>>)),
                      parse_length(step.off), TargetList(step.off_target),
                      S_active) >>)

\* the repetition block of an interval entry (parsing.py:100-121)
IntervalBlock(step) ==
  DslBlock(S_repetition,
           IF step.reps = AbsentNum THEN Num(R(1)) ELSE step.reps,
           << DslStep(GetOr(step.on_name, GetOr(step.name, <<>>)),
                      parse_length(step.on), OnTargets(step.on_target), S_active),
              DslStep(GetOr(step.off_name, S_Easy),
                      parse_length(step.off), TargetList(step.off_target),
                      S_rest) >>)

\* the step block of a cooldown entry (parsing.py:134-149)
CooldownBlock(step) ==
  DslBlock(S_step, Num(R(1)),
           << DslStep(GetOr(step.name, S_CoolDown),
                      Length(parse_duration(step.duration), S_second),
                      TargetList(step.target), S_coolDown) >>)

\* the step block of a steady entry (parsing.py:152-167)
SteadyBlock(step) ==
  DslBlock(S_step, Num(R(1)),
           << DslStep(GetOr(step.name, <<>>),
                      Length(parse_duration(step.duration), S_second),
                      TargetList(step.target), S_active) >>)

(***************************************************************************)
(* core/upload.py: the duration/distance estimator.                        *)
(***************************************************************************)
\* _pct_to_speed
pct_to_speed(target_str, threshold_speed) ==
  IF NoText(target_str) THEN RMul(threshold_speed, Rat(72, 100))
  ELSE IF RangeMatch(target_str).ok
       THEN RMul(threshold_speed,
                 RDiv(RDiv(R(RangeMatch(target_str).lo + RangeMatch(target_str).hi),
                           R(2)),
                      R(100)))
       ELSE IF LeadingDigits(target_str) # <<>>
            THEN RMul(threshold_speed,
                      RDiv(R(DigitsVal(LeadingDigits(target_str))), R(100)))
            ELSE RMul(threshold_speed, Rat(72, 100))

Totals(seconds, meters) == [seconds |-> seconds, meters |-> meters]

\* one leg added to the running totals (upload.py:82-87, 98-110)
AddLeg(totals, length, speed) ==
  IF length.unit = S_second
  THEN Totals(RAdd(totals.seconds, R(length.value)),
              RAdd(totals.meters, RMul(R(length.value), speed)))
  ELSE Totals(RAdd(totals.seconds,
                   IF RPos(speed) THEN RDiv(R(length.value), speed) ELSE RZero),
              RAdd(totals.meters, R(length.value)))

\* int(step.get("reps", 1)): the exception it raises, "" when there is none
RepsRaises(reps) ==
  IF reps.t = "none" THEN "TypeError"
  ELSE IF reps.t = "str" THEN "ValueError" ELSE ""
RepsInt(reps) == IF reps.t = "num" THEN RTrunc(reps.v) ELSE 1

\* `for _ in range(reps)` of upload.py:97-110
RECURSIVE AddReps(_, _, _, _, _, _)
AddReps(totals, reps, on, on_speed, off, off_speed) ==
  IF reps <= 0 THEN totals
  ELSE AddReps(AddLeg(AddLeg(totals, on, on_speed), off, off_speed),
               reps - 1, on, on_speed, off, off_speed)

\* the mutant of HalfUp: Python's round(), which rounds a half to even
HalfUp_even(total) ==
  LET n == RTrunc(total)
  IN IF RSub(total, R(n)) = Rat(1, 2) THEN (IF n % 2 = 0 THEN n ELSE n + 1)
     ELSE RTrunc(RAdd(total, Rat(1, 2)))

\* int(total + 0.5) of upload.py:113
HalfUp(total) == RTrunc(RAdd(total, Rat(1, 2)))

SimpleTypes == {S_warmup, S_steady, S_cooldown}

(***************************************************************************)
(* core/analysis.py: dates, period keys and the zone report.  A workoutDay *)
(* is a string, NoneDay (the key holds None) or Absent.                    *)
(***************************************************************************)
SPORT_MAP == (1 :> "swim") @@ (2 :> "bike") @@ (3 :> "run")

\* SPORT_MAP.get(id) == sport
SportIs(id, sport) == id \in DOMAIN SPORT_MAP /\ SPORT_MAP[id] = sport

NoneDay == << "", "" >>
S_None == <<"N","o","n","e">>

\* the ASCII characters from the space (32) to the underscore (95) in code
\* order; the lower-case letters start at 97
AsciiChars ==
  << " ","!","\"","#","$","%","&","'","(",")","*","+",",","-",".","/",
     "0","1","2","3","4","5","6","7","8","9",":",";","<","=",">","?",
     "@","A","B","C","D","E","F","G","H","I","J","K","L","M","N","O",
     "P","Q","R","S","T","U","V","W","X","Y","Z","[","\\","]","^","_" >>
CharCode(c) ==
  IF \E i \in 1..Len(LowerChars) : LowerChars[i] = c
  THEN 96 + CHOOSE i \in 1..Len(LowerChars) : LowerChars[i] = c
  ELSE 31 + CHOOSE i \in 1..Len(AsciiChars) : AsciiChars[i] = c

\* a < b for Python strings
RECURSIVE StrLess(_, _)
StrLess(a, b) ==
  IF b = <<>> THEN FALSE
  ELSE IF a = <<>> THEN TRUE
  ELSE IF a[1] = b[1] THEN StrLess(Tail(a), Tail(b))
  ELSE CharCode(a[1]) < CharCode(b[1])

\* s[:n]
Prefix(s, n) == SubSeq(s, 1, IF Len(s) < n THEN Len(s) ELSE n)

\* str(item.get("workoutDay", "")), the sort key of analysis.py:324
DaySortKey(workout) ==
  IF workout.workoutDay = Absent THEN <<>>
  ELSE IF workout.workoutDay = NoneDay THEN S_None
  ELSE workout.workoutDay

\* str(workout.get("workoutDay") or "")[:10]
DayOf(workout) ==
  IF workout.workoutDay \in {Absent, NoneDay} THEN <<>>
  ELSE Prefix(workout.workoutDay, 10)

\* str.split("-")
RECURSIVE SplitDash(_)
SplitDash(s) ==
  LET dashes == {i \in 1..Len(s) : s[i] = "-"}
  IN IF dashes = {} THEN << s >>
     ELSE LET c == CHOOSE i \in dashes : \A j \in dashes : i <= j
          IN << SubSeq(s, 1, c - 1) >> \o SplitDash(SubSeq(s, c + 1, Len(s)))

IsLeap(y) == y % 4 = 0 /\ (y % 100 # 0 \/ y % 400 = 0)
DaysInMonth(y, m) ==
  IF m = 2 THEN (IF IsLeap(y) THEN 29 ELSE 28)
  ELSE IF m \in {4, 6, 9, 11} THEN 30 ELSE 31

\* the fields %Y-%m-%d reads: four digits, then one or two digits twice
DateFields(day) ==
  LET parts == SplitDash(day)
  IN /\ Len(parts) = 3
     /\ Len(parts[1]) = 4 /\ AllDigits(parts[1])
     /\ Len(parts[2]) \in {1, 2} /\ AllDigits(parts[2])
     /\ Len(parts[3]) \in {1, 2} /\ AllDigits(parts[3])

\* datetime.strptime(day, "%Y-%m-%d") returns (it raises ValueError otherwise)
StrptimeOk(day) ==
  /\ DateFields(day)
  /\ LET parts == SplitDash(day)
         y == DigitsVal(parts[1])
         m == DigitsVal(parts[2])
         d == DigitsVal(parts[3])
     IN y >= 1 /\ m \in 1..12 /\ d >= 1 /\ d <= DaysInMonth(y, m)

\* the date strptime returns
Strptime(day) ==
  LET parts == SplitDash(day)
  IN [year |-> DigitsVal(parts[1]), month |-> DigitsVal(parts[2]),
      day |-> DigitsVal(parts[3])]

RECURSIVE DaysBeforeMonth(_, _)
DaysBeforeMonth(y, m) ==
  IF m = 1 THEN 0 ELSE DaysBeforeMonth(y, m - 1) + DaysInMonth(y, m - 1)

\* date.toordinal(): 1 for 0001-01-01
Ordinal(y, m, d) ==
  (y - 1) * 365 + ((y - 1) \div 4) - ((y - 1) \div 100) + ((y - 1) \div 400)
  + DaysBeforeMonth(y, m) + d

\* the ordinal of the Monday that starts ISO week 1 of year y
IsoWeek1Monday(y) ==
  LET firstday == Ordinal(y, 1, 1)
      firstweekday == (firstday + 6) % 7
  IN IF firstweekday > 3 THEN firstday - firstweekday + 7
     ELSE firstday - firstweekday

\* date.isocalendar(): the ISO year and week
IsoCalendar(dt) ==
  LET today == Ordinal(dt.year, dt.month, dt.day)
      w1 == IsoWeek1Monday(dt.year)
  IN IF today < w1
     THEN [year |-> dt.year - 1,
           week |-> ((today - IsoWeek1Monday(dt.year - 1)) \div 7) + 1]
     ELSE IF (today - w1) \div 7 >= 52 /\ today >= IsoWeek1Monday(dt.year + 1)
          THEN [year |-> dt.year + 1, week |-> 1]
          ELSE [year |-> dt.year, week |-> ((today - w1) \div 7) + 1]

\* str(n) for n >= 0
RECURSIVE FormatInt(_)
FormatInt(n) ==
  IF n < 10 THEN << Digits[n + 1] >>
  ELSE FormatInt(n \div 10) \o << Digits[(n % 10) + 1] >>

\* n formatted in at least two digits (%m, :02d)
Pad2(n) == IF n < 10 THEN << "0" >> \o FormatInt(n) ELSE FormatInt(n)
\* %Y of strftime for the years of the model (1000..9999)
Pad4(n) == FormatInt(n)

\* get_week_key: f"{iso[0]}-W{iso[1]:02d}"
get_week_key(date_str) ==
  LET iso == IsoCalendar(Strptime(Prefix(date_str, 10)))
  IN FormatInt(iso.year) \o << "-", "W" >> \o Pad2(iso.week)

\* dt.strftime("%Y-%m")
MonthKey(dt) == Pad4(dt.year) \o << "-" >> \o Pad2(dt.month)

\* the period of analysis.py:345
PeriodOf(day, group_by) ==
  IF group_by = "month" THEN MonthKey(Strptime(day)) ELSE get_week_key(day)

\* list.sort(key=DaySortKey): a stable insertion sort
RECURSIVE InsertByDay(_, _)
InsertByDay(sorted, w) ==
  IF sorted = <<>> THEN << w >>
  ELSE IF StrLess(DaySortKey(w), DaySortKey(sorted[Len(sorted)]))
       THEN Append(InsertByDay(SubSeq(sorted, 1, Len(sorted) - 1), w),
                   sorted[Len(sorted)])
       ELSE Append(sorted, w)

RECURSIVE SortByDay(_)
SortByDay(ws) ==
  IF ws = <<>> THEN <<>>
  ELSE InsertByDay(SortByDay(SubSeq(ws, 1, Len(ws) - 1)), ws[Len(ws)])

\* sorted(keys) for a set of strings
RECURSIVE SortedKeys(_)
SortedKeys(keys) ==
  IF keys = {} THEN <<>>
  ELSE LET least == CHOOSE k \in keys : \A other \in keys \ {k} : StrLess(k, other)
       IN << least >> \o SortedKeys(keys \ {least})

\* the value of the defaultdict by_period at a key
NewPeriod == [zones |-> ZeroZones, total |-> RZero]
PeriodAt(by_period, period) ==
  IF period \in DOMAIN by_period THEN by_period[period] ELSE NewPeriod

AddZones(a, b) == [z \in Zones |-> RAdd(a[z], b[z])]

\* analysis.py:346-348
AddToPeriod(by_period, period, zones, dist) ==
  [k \in DOMAIN by_period \cup {period} |->
     IF k = period
     THEN [zones |-> AddZones(PeriodAt(by_period, period).zones, zones),
           total |-> RAdd(PeriodAt(by_period, period).total, dist)]
     ELSE by_period[k]]

\* value / total * 100 if total else 0
PctOf(value, total) ==
  IF total = RZero THEN RZero ELSE RMul(RDiv(value, total), R(100))

\* one row of period_list (analysis.py:361-370)
PeriodRow(by_period, period) ==
  [period |-> period,
   total_distance |-> by_period[period].total,
   distance |-> by_period[period].zones,
   pct |-> [z \in Zones |-> PctOf(by_period[period].zones[z],
                                  by_period[period].total)]]

\* the mutant of PeriodList: the rows are listed in descending key order
PeriodList_unsorted(by_period) ==
  LET keys == SortedKeys(DOMAIN by_period)
  IN [i \in 1..Len(keys) |-> PeriodRow(by_period, keys[Len(keys) + 1 - i])]

\* period_list of analysis.py:359-371
PeriodList(by_period) ==
  LET keys == SortedKeys(DOMAIN by_period)
  IN [i \in 1..Len(keys) |-> PeriodRow(by_period, keys[i])]

(***************************************************************************)
(* Idle values of the components a specification does not run.             *)
(***************************************************************************)
ZcIdle == [pc |-> "idle"]
WkIdle == [pc |-> "idle"]
CwIdle == [pc |-> "idle"]
PzIdle == [pc |-> "idle"]
DslIdle == [pc |-> "idle"]
EstIdle == [pc |-> "idle"]
AzIdle == [pc |-> "idle"]
ChIdle == [pc |-> "idle"]
RqIdle == [pc |-> "idle"]
LgIdle == [pc |-> "idle"]
UpIdle == [pc |-> "idle"]
BwIdle == [pc |-> "idle"]
ApIdle == [pc |-> "idle"]
FwIdle == [pc |-> "idle"]

IdleButZc ==
  wk = WkIdle /\ cw = CwIdle /\ pz = PzIdle /\ dsl = DslIdle /\
    est = EstIdle /\ az = AzIdle /\ ch = ChIdle /\ rq = RqIdle /\
    lg = LgIdle /\ up = UpIdle /\ bw = BwIdle /\ ap = ApIdle /\ fw = FwIdle
IdleButWk ==
  zc = ZcIdle /\ cw = CwIdle /\ pz = PzIdle /\ dsl = DslIdle /\
    est = EstIdle /\ az = AzIdle /\ ch = ChIdle /\ rq = RqIdle /\
    lg = LgIdle /\ up = UpIdle /\ bw = BwIdle /\ ap = ApIdle /\ fw = FwIdle
IdleButCw ==
  zc = ZcIdle /\ wk = WkIdle /\ pz = PzIdle /\ dsl = DslIdle /\
    est = EstIdle /\ az = AzIdle /\ ch = ChIdle /\ rq = RqIdle /\
    lg = LgIdle /\ up = UpIdle /\ bw = BwIdle /\ ap = ApIdle /\ fw = FwIdle
IdleButPz ==
  zc = ZcIdle /\ wk = WkIdle /\ cw = CwIdle /\ dsl = DslIdle /\
    est = EstIdle /\ az = AzIdle /\ ch = ChIdle /\ rq = RqIdle /\
    lg = LgIdle /\ up = UpIdle /\ bw = BwIdle /\ ap = ApIdle /\ fw = FwIdle
IdleButDsl ==
  zc = ZcIdle /\ wk = WkIdle /\ cw = CwIdle /\ pz = PzIdle /\
    est = EstIdle /\ az = AzIdle /\ ch = ChIdle /\ rq = RqIdle /\
    lg = LgIdle /\ up = UpIdle /\ bw = BwIdle /\ ap = ApIdle /\ fw = FwIdle
IdleButEst ==
  zc = ZcIdle /\ wk = WkIdle /\ cw = CwIdle /\ pz = PzIdle /\
    dsl = DslIdle /\ az = AzIdle /\ ch = ChIdle /\ rq = RqIdle /\
    lg = LgIdle /\ up = UpIdle /\ bw = BwIdle /\ ap = ApIdle /\ fw = FwIdle
IdleButAz ==
  zc = ZcIdle /\ wk = WkIdle /\ cw = CwIdle /\ pz = PzIdle /\
    dsl = DslIdle /\ est = EstIdle /\ ch = ChIdle /\ rq = RqIdle /\
    lg = LgIdle /\ up = UpIdle /\ bw = BwIdle /\ ap = ApIdle /\ fw = FwIdle
IdleButCh ==
  zc = ZcIdle /\ wk = WkIdle /\ cw = CwIdle /\ pz = PzIdle /\
    dsl = DslIdle /\ est = EstIdle /\ az = AzIdle /\ rq = RqIdle /\
    lg = LgIdle /\ up = UpIdle /\ bw = BwIdle /\ ap = ApIdle /\ fw = FwIdle
IdleButRq ==
  zc = ZcIdle /\ wk = WkIdle /\ cw = CwIdle /\ pz = PzIdle /\
    dsl = DslIdle /\ est = EstIdle /\ az = AzIdle /\ ch = ChIdle /\
    lg = LgIdle /\ up = UpIdle /\ bw = BwIdle /\ ap = ApIdle /\ fw = FwIdle
IdleButLg ==
  zc = ZcIdle /\ wk = WkIdle /\ cw = CwIdle /\ pz = PzIdle /\
    dsl = DslIdle /\ est = EstIdle /\ az = AzIdle /\ ch = ChIdle /\
    rq = RqIdle /\ up = UpIdle /\ bw = BwIdle /\ ap = ApIdle /\ fw = FwIdle
IdleButUp ==
  zc = ZcIdle /\ wk = WkIdle /\ cw = CwIdle /\ pz = PzIdle /\
    dsl = DslIdle /\ est = EstIdle /\ az = AzIdle /\ ch = ChIdle /\
    rq = RqIdle /\ lg = LgIdle /\ bw = BwIdle /\ ap = ApIdle /\ fw = FwIdle
IdleButBw ==
  zc = ZcIdle /\ wk = WkIdle /\ cw = CwIdle /\ pz = PzIdle /\
    dsl = DslIdle /\ est = EstIdle /\ az = AzIdle /\ ch = ChIdle /\
    rq = RqIdle /\ lg = LgIdle /\ up = UpIdle /\ ap = ApIdle /\ fw = FwIdle
IdleButAp ==
  zc = ZcIdle /\ wk = WkIdle /\ cw = CwIdle /\ pz = PzIdle /\
    dsl = DslIdle /\ est = EstIdle /\ az = AzIdle /\ ch = ChIdle /\
    rq = RqIdle /\ lg = LgIdle /\ up = UpIdle /\ bw = BwIdle /\ fw = FwIdle
IdleButFw ==
  zc = ZcIdle /\ wk = WkIdle /\ cw = CwIdle /\ pz = PzIdle /\
    dsl = DslIdle /\ est = EstIdle /\ az = AzIdle /\ ch = ChIdle /\
    rq = RqIdle /\ lg = LgIdle /\ up = UpIdle /\ bw = BwIdle /\ ap = ApIdle

FrameZc ==
  UNCHANGED <<wk, cw, pz, dsl, est, az, ch, rq, lg, up, bw, ap, fw>>
FrameWk ==
  UNCHANGED <<zc, cw, pz, dsl, est, az, ch, rq, lg, up, bw, ap, fw>>
FrameCw ==
  UNCHANGED <<zc, wk, pz, dsl, est, az, ch, rq, lg, up, bw, ap, fw>>
FramePz ==
  UNCHANGED <<zc, wk, cw, dsl, est, az, ch, rq, lg, up, bw, ap, fw>>
FrameDsl ==
  UNCHANGED <<zc, wk, cw, pz, est, az, ch, rq, lg, up, bw, ap, fw>>
FrameEst ==
  UNCHANGED <<zc, wk, cw, pz, dsl, az, ch, rq, lg, up, bw, ap, fw>>
FrameAz ==
  UNCHANGED <<zc, wk, cw, pz, dsl, est, ch, rq, lg, up, bw, ap, fw>>
FrameCh ==
  UNCHANGED <<zc, wk, cw, pz, dsl, est, az, rq, lg, up, bw, ap, fw>>
FrameRq ==
  UNCHANGED <<zc, wk, cw, pz, dsl, est, az, ch, lg, up, bw, ap, fw>>
FrameLg ==
  UNCHANGED <<zc, wk, cw, pz, dsl, est, az, ch, rq, up, bw, ap, fw>>
FrameUp ==
  UNCHANGED <<zc, wk, cw, pz, dsl, est, az, ch, rq, lg, bw, ap, fw>>
FrameBw ==
  UNCHANGED <<zc, wk, cw, pz, dsl, est, az, ch, rq, lg, up, ap, fw>>
FrameAp ==
  UNCHANGED <<zc, wk, cw, pz, dsl, est, az, ch, rq, lg, up, bw, fw>>
FrameFw ==
  UNCHANGED <<zc, wk, cw, pz, dsl, est, az, ch, rq, lg, up, bw, ap>>

(***************************************************************************)
(* SpecZone: one call of classify_zone on every input of the bounded sets. *)
(***************************************************************************)
MaxThr == 4

ZoneBlockTypes ==
  { <<"r","a","m","p","U","p">>, <<"R","A","M","P","U","P">>, S_rampup,
    <<" ","r","a","m","p","U","p"," ">>, S_step, S_repetition,
    <<"r","a","m","p">> }

ZoneIntensityClasses ==
  { S_active, <<"w","a","r","m","U","p">>, <<"c","o","o","l","D","o","w","n">>,
    <<"R","E","S","T">>, S_rest, <<"r","e","c","o","v","e","r","y","\n">>,
    <<"R","e","c","o","v","e","r","y">>, <<>> }

ZoneThresholds ==
  { [easy_max |-> a, lt1_max |-> b, lt2_max |-> c] :
      a \in 1..MaxThr, b \in 1..MaxThr, c \in 1..MaxThr }

\* percentages in half units around the small thresholds, and the default
\* triple's boundaries (test_classify_zone_threshold_boundaries)
ZonePcts ==
  { Rat(h, 2) : h \in 0..(2 * MaxThr + 2) }
  \cup { R(p) : p \in {74, 75, 76, 92, 93, 94, 99, 100, 101, 110} }

ZoneInit ==
  /\ IdleButZc
  /\ \E p \in ZonePcts, b \in ZoneBlockTypes, c \in ZoneIntensityClasses,
        t \in {x \in ZoneThresholds : x.easy_max < x.lt1_max /\ x.lt1_max < x.lt2_max}
              \cup {DEFAULT_ZONE_THRESHOLDS} :
       zc = [pc |-> "call", pct |-> p, block_type |-> b, intensity_class |-> c,
             thresholds |-> t, out |-> <<>>]

ZoneCall ==
  /\ zc.pc = "call"
  /\ zc' = [zc EXCEPT !.pc = "done",
              !.out = classify_zone(zc.pct, zc.block_type, zc.intensity_class,
                                    zc.thresholds)]
  /\ FrameZc

SpecZone == ZoneInit /\ [][ZoneCall]_vars

ZoneRank(z) == CASE z = S_easy -> 0 [] z = S_lt1 -> 1 [] z = S_lt2 -> 2
                 [] z = S_vo2 -> 3

\* equality of two strings up to letter case
CaseFoldEq(a, b) ==
  Len(a) = Len(b) /\ \A i \in 1..Len(a) : LowerChar(a[i]) = LowerChar(b[i])

\* equality up to letter case and surrounding whitespace
PaddedCaseFoldEq(a, b) ==
  \E lo \in 1..(Len(a) + 1), hi \in 0..Len(a) :
     /\ \A i \in 1..Len(a) : (i < lo \/ i > hi) => a[i] \in Whitespace
     /\ CaseFoldEq(SubSeq(a, lo, hi), b)

ZoneLadder(pct, t) ==
  IF RLe(pct, R(t.easy_max)) THEN S_easy
  ELSE IF RLe(pct, R(t.lt1_max)) THEN S_lt1
  ELSE IF RLe(pct, R(t.lt2_max)) THEN S_lt2 ELSE S_vo2

ZoneForcedEasy(b, c) ==
  PaddedCaseFoldEq(b, S_rampup) \/ \E e \in EASY_CLASSES : PaddedCaseFoldEq(c, e)

\* C1 (as amended): classify_zone returns easy whenever block_type is
\* 'rampup' or intensity_class is one of warmup, cooldown, rest, recovery,
\* compared ignoring letter case AND surrounding whitespace; otherwise it
\* returns the zone of the inclusive threshold ladder, which is monotonic
\* non-decreasing in pct, a boundary pct belonging to the lower zone.
ThmC1 ==
  zc.pc = "done" =>
    /\ ZoneForcedEasy(zc.block_type, zc.intensity_class) => zc.out = S_easy
    /\ ~ZoneForcedEasy(zc.block_type, zc.intensity_class) =>
         /\ zc.out = ZoneLadder(zc.pct, zc.thresholds)
         /\ zc.pct = R(zc.thresholds.easy_max) => zc.out = S_easy
         /\ zc.pct = R(zc.thresholds.lt1_max) => zc.out = S_lt1
         /\ zc.pct = R(zc.thresholds.lt2_max) => zc.out = S_lt2
    /\ \A q \in ZonePcts :
         RLe(zc.pct, q) =>
           ZoneRank(zc.out) <= ZoneRank(classify_zone(q, zc.block_type,
                                   zc.intensity_class, zc.thresholds))

\* a boundary percentage of the default thresholds was classified on the ladder
WitC1 ==
  /\ zc.pc = "done"
  /\ zc.thresholds = DEFAULT_ZONE_THRESHOLDS
  /\ zc.pct = R(93)
  /\ zc.block_type = S_step
  /\ zc.intensity_class = S_active
  /\ zc.out = S_lt1

\* C1 as stated: the forced-easy test compares ignoring letter case only
OrigC1 ==
  zc.pc = "done" =>
    LET forced == \/ CaseFoldEq(zc.block_type, S_rampup)
                  \/ \E e \in EASY_CLASSES : CaseFoldEq(zc.intensity_class, e)
    IN /\ forced => zc.out = S_easy
       /\ ~forced => zc.out = ZoneLadder(zc.pct, zc.thresholds)

(***************************************************************************)
(* SpecWeek: one call of classify_week on every input of the bounded sets. *)
(***************************************************************************)
MaxSessions == 4

WeekDistances == { R(0), R(10000), R(19999), R(20000), R(30000), Rat(39999, 2) }
WeekDeltas ==
  { NoDelta } \cup
  { SomeDelta(r) : r \in { R(-30), R(-26), Rat(-51, 2), R(-25), Rat(-49, 2),
                           R(-24), R(0), R(3), R(10), R(14), Rat(29, 2), R(15),
                           Rat(31, 2), R(16), R(20) } }

WeekInit ==
  /\ IdleButWk
  /\ \E d \in WeekDistances, s \in 0..MaxSessions, r \in BOOLEAN, dl \in WeekDeltas :
    wk = [pc |-> "call", total_distance |-> d, total_sessions |-> s,
          has_race |-> r, delta_pct |-> dl, out |-> "none"]

WeekCall ==
  /\ wk.pc = "call"
  /\ wk' = [wk EXCEPT !.pc = "done",
              !.out = classify_week(wk.total_distance, wk.total_sessions,
                                    wk.has_race, wk.delta_pct)]
  /\ FrameWk

SpecWeek == WeekInit /\ [][WeekCall]_vars

WeekLabels == {"race", "off", "start", "recovery", "build", "maintenance"}

\* C2: classify_week is total and returns the label of the first matching
\* rule in the order race, off (sessions <= 2 and distance < 20000), start
\* (no delta), recovery (delta < -25), build (delta > 15), maintenance.
ThmC2 ==
  wk.pc = "done" =>
    LET off == wk.total_sessions <= 2 /\ RLt(wk.total_distance, R(20000))
        nd == wk.delta_pct.none
        dv == wk.delta_pct.v
    IN /\ wk.out \in WeekLabels
       /\ wk.out = "race" <=> wk.has_race
       /\ wk.out = "off" <=> (~wk.has_race /\ off)
       /\ wk.out = "start" <=> (~wk.has_race /\ ~off /\ nd)
       /\ wk.out = "recovery" <=> (~wk.has_race /\ ~off /\ ~nd /\ RLt(dv, R(-25)))
       /\ wk.out = "build" <=> (~wk.has_race /\ ~off /\ ~nd /\ RLt(R(15), dv))
       /\ (~wk.has_race /\ ~off /\ ~nd /\ (dv = R(-25) \/ dv = R(15)))
            => wk.out = "maintenance"

\* a race week with at most two sessions and a short distance is race, not off
WitC2 ==
  /\ wk.pc = "done"
  /\ wk.has_race
  /\ wk.total_sessions = 2
  /\ wk.total_distance = R(10000)
  /\ wk.out = "race"

(***************************************************************************)
(* SpecCW: classification of one fetched workout, as in                    *)
(* fetch_workouts_in_chunks: the rules are built from the configuration,   *)
(* then classify_with_metadata runs and its result is attached.            *)
(***************************************************************************)
T_race_day_prep == <<"R","a","c","e"," ","d","a","y"," ","p","r","e","p">>  \* "Race day prep"
T_threshold_intervals == <<"T","h","r","e","s","h","o","l","d"," ","I","n","t","e","r","v","a","l","s">>  \* "Threshold Intervals"
T_tuesday_run == <<"T","u","e","s","d","a","y"," ","r","u","n">>  \* "Tuesday run"
T_long_run == <<"S","u","n","d","a","y"," ","L","o","n","g"," ","R","u","n">>  \* "Sunday Long Run"
T_latest_spin == <<"L","a","t","e","s","t"," ","s","p","i","n">>  \* "Latest spin"
T_gym == <<"G","y","m">>  \* "Gym"
T_fartlek == <<"F","a","r","t","l","e","k"," ","s","e","s","s","i","o","n">>  \* "Fartlek session"
T_vo2 == <<"V","O","2"," ","S","e","s","s","i","o","n">>  \* "VO2 Session"
T_local_race == <<"L","o","c","a","l"," ","r","a","c","e"," ","e","f","f","o","r","t">>  \* "Local race effort"
T_zone4 == <<"Z","o","n","e"," ","4"," ","w","o","r","k">>  \* "Zone 4 work"
T_easy_tempo == <<"E","a","s","y"," ","t","e","m","p","o"," ","r","u","n">>  \* "Easy tempo run"
T_sprint_tag == <<"s","p","r","i","n","t">>  \* "sprint"

\* a step with a numeric length and a min-max target
RangeStep(len, unit, lo, hi, cls) ==
  StepItem(Num(R(len)), unit, << Tgt(Num(lo), Num(hi)) >>, cls)
\* a step with a numeric length and a minValue-only target
FloorStep(len, unit, lo, cls) ==
  StepItem(Num(R(len)), unit, << Tgt(Num(lo), Null) >>, cls)

S_Repetition == <<"R","e","p","e","t","i","t","i","o","n">>

\* test_classify_from_structure_lt2_without_keywords
Blocks_lt2 ==
  << BlockItem(S_step, Num(R(1)),
       << RangeStep(1200, S_second, R(96), R(100), S_active) >>) >>
\* test_classify_from_structure_lt1_without_keywords
Blocks_lt1 ==
  << BlockItem(<<>>, Null, << RangeStep(1800, S_second, R(82), R(86), S_active) >>) >>
\* test_classify_structure_ignores_short_hard_opener
Blocks_opener ==
  << BlockItem(<<>>, Null,
       << RangeStep(60, S_second, R(105), R(110), S_active),
          RangeStep(3600, S_second, R(68), R(72), S_active) >>) >>
\* test_classify_structured_steps_payload: a flat list of steps
Steps_vo2 ==
  << RangeStep(120, S_second, R(112), R(116), S_active),
     RangeStep(120, S_second, R(112), R(116), S_active) >>
\* a warm-up ramp and 4 x (8:00 at 94-104 / 2:00 rest at 72)
Blocks_rep ==
  << BlockItem(S_rampUp, Num(R(1)),
       << FloorStep(600, S_second, R(110), S_warmUp) >>),
     BlockItem(S_Repetition, Num(R(4)),
       << RangeStep(480, S_second, R(94), R(104), S_active),
          FloorStep(120, S_second, R(72), S_rest) >>) >>
\* no step carries a target
Blocks_notargets ==
  << BlockItem(S_step, Num(R(1)),
       << StepItem(Num(R(600)), S_second, <<>>, S_active), ScalarItem >>) >>
\* fractional targets 0.96-1.0
Blocks_fraction ==
  << BlockItem(S_step, Num(R(1)),
       << RangeStep(20, S_minute, Rat(96, 100), R(1), S_active) >>) >>
\* a distance step of 1000 m at 110
Blocks_meter ==
  << BlockItem(S_step, Num(R(1)), << FloorStep(1000, S_meter, R(110), S_active) >>) >>
\* a targeted step whose length is not a number
Blocks_nolength ==
  << BlockItem(S_step, Num(R(1)),
       << StepItem(NaS, S_second, << Tgt(Num(R(98)), Num(R(98))) >>, S_active) >>) >>

\* two 60 s steps at 112-116: 120 s of vo2 load in two vo2 steps
Blocks_short_vo2 ==
  << BlockItem(S_step, Num(R(1)),
       << RangeStep(60, S_second, R(112), R(116), S_active),
          RangeStep(60, S_second, R(112), R(116), S_active) >>) >>
\* 60 s at 98 and 60 s at 110: one lt2 step and one vo2 step
Blocks_short_lt2 ==
  << BlockItem(S_step, Num(R(1)),
       << FloorStep(60, S_second, R(98), S_active),
          FloorStep(60, S_second, R(110), S_active) >>) >>
\* 60 s at 85 and 60 s at 88: two lt1 steps
Blocks_short_lt1 ==
  << BlockItem(S_step, Num(R(1)),
       << FloorStep(60, S_second, R(85), S_active),
          FloorStep(60, S_second, R(88), S_active) >>) >>
\* a repetition block whose length value is 0
Blocks_rep0 ==
  << BlockItem(S_repetition, Num(R(0)),
       << FloorStep(200, S_second, R(110), S_active) >>) >>
\* a repetition block whose length value is 2.5
Blocks_rephalf ==
  << BlockItem(S_repetition, Num(Rat(5, 2)),
       << FloorStep(80, S_second, R(110), S_active) >>) >>
\* a targeted step of 0 seconds and a targeted step in an unknown unit
Blocks_zero ==
  << BlockItem(S_step, Num(R(1)),
       << FloorStep(0, S_second, R(98), S_active),
          FloorStep(5, S_repetition, R(85), S_active) >>) >>

S_pace == <<"p","a","c","e">>

CwPayloads ==
  { DictPayload(FALSE, S_pace, Blocks_lt2, <<>>),
    DictPayload(TRUE, S_pace, Blocks_lt2, <<>>),
    DictPayload(FALSE, S_pace, Blocks_lt1, <<>>),
    DictPayload(FALSE, S_pace, Blocks_opener, <<>>),
    DictPayload(FALSE, <<>>, <<>>, Steps_vo2),
    DictPayload(FALSE, S_pace, Blocks_rep, <<>>),
    DictPayload(FALSE, S_pace, Blocks_notargets, <<>>),
    DictPayload(FALSE, S_pace, Blocks_fraction, <<>>),
    DictPayload(FALSE, S_pace, Blocks_meter, <<>>),
    DictPayload(FALSE, S_pace, Blocks_nolength, <<>>),
    DictPayload(FALSE, S_pace, Blocks_short_vo2, <<>>),
    DictPayload(FALSE, S_pace, Blocks_short_lt2, <<>>),
    DictPayload(FALSE, S_pace, Blocks_short_lt1, <<>>),
    DictPayload(FALSE, S_pace, Blocks_rep0, <<>>),
    DictPayload(FALSE, S_pace, Blocks_rephalf, <<>>),
    DictPayload(FALSE, S_pace, Blocks_zero, <<>>),
    DictPayload(FALSE, S_pace, <<>>, <<>>),
    ListPayload(FALSE, Steps_vo2),
    ListPayload(TRUE, << ScalarItem >>),
    ScalarPayload(TRUE),
    BadJson,
    NoPayload }

\* <<structuredSteps, structuredWorkout, structure>>
CwStructures ==
  { <<NoPayload, NoPayload, p>> : p \in CwPayloads }
  \cup { <<ListPayload(FALSE, Steps_vo2), NoPayload,
           DictPayload(FALSE, S_pace, Blocks_lt1, <<>>)>>,
         <<BadJson, DictPayload(FALSE, S_pace, Blocks_lt1, <<>>),
           DictPayload(FALSE, S_pace, Blocks_lt2, <<>>)>>,
         <<NoPayload, DictPayload(FALSE, S_pace, Blocks_notargets, <<>>),
           DictPayload(FALSE, S_pace, Blocks_lt2, <<>>)>> }

CwTitles ==
  { T_race_day_prep, T_threshold_intervals, T_tuesday_run, T_long_run,
    T_latest_spin, T_gym, T_fartlek, T_vo2, T_easy_tempo }

KeywordList(items) == [iterable |-> TRUE, items |-> items]
NotIterable == [iterable |-> FALSE, items |-> <<>>]

\* the items of config["classification"]["rules"]
CwConfigs ==
  { <<>>,
    << <<S_fartlek, KeywordList(<< <<"F","a","r","t","l","e","k">> >>)>> >>,
    << <<S_tempo, NotIterable>> >>,
    << <<S_easy, KeywordList(<< <<"r","u","n">>, <<"s","e","s","s","i","o","n">> >>)>>,
       <<S_race, KeywordList(<< S_race >>)>> >> }

NoClassification ==
  [type |-> <<>>, method |-> "", confidence |-> 0, reasoning |-> ""]

CwInit ==
  /\ IdleButCw
  /\ \E t \in CwTitles, d \in {<<>>, T_local_race}, cc \in {<<>>, T_zone4},
        tg \in {<<>>, T_sprint_tag}, st \in CwStructures, cf \in CwConfigs,
        m \in {"auto", "ai"} :
       cw = [pc |-> "rules",
             workout |-> [title |-> t, description |-> d, coachComments |-> cc,
                          userTags |-> tg, structuredSteps |-> st[1],
                          structuredWorkout |-> st[2], structure |-> st[3],
                          classification |-> NoClassification],
             config |-> cf, method |-> m, rules |-> <<>>]

\* common.py:65
CwRules ==
  /\ cw.pc = "rules"
  /\ cw' = [cw EXCEPT !.pc = "classify",
              !.rules = classification_rules_from_config(cw.config)]
  /\ FrameCw

\* common.py:83-89
CwClassify ==
  /\ cw.pc = "classify"
  /\ cw' = [cw EXCEPT !.pc = "done",
              !.workout.classification =
                 classify_with_metadata(cw.workout, cw.method, cw.rules)]
  /\ FrameCw

CwNext == CwRules \/ CwClassify

SpecCW == CwInit /\ [][CwNext]_vars

\* the workout as it was before the classification was attached
CwInput == [cw.workout EXCEPT !.classification = NoClassification]

\* the first rule of the table one of whose keywords occurs in the text
FirstMatch(text, rules) ==
  IF \A i \in 1..Len(rules) :
        \A j \in 1..Len(rules[i].keywords) : ~IsSubstr(rules[i].keywords[j], text)
  THEN S_other
  ELSE LET first == CHOOSE i \in 1..Len(rules) :
                      /\ \E j \in 1..Len(rules[i].keywords) :
                            IsSubstr(rules[i].keywords[j], text)
                      /\ \A h \in 1..(i - 1) :
                            \A j \in 1..Len(rules[h].keywords) :
                               ~IsSubstr(rules[h].keywords[j], text)
       IN rules[first].type

\* C4: when the keyword label of a workout (first matching rule over title,
\* description, coach comments and tags) is one of race, test, strength,
\* long, sprint, the classification is that label whatever the structure
\* alone classifies as.
ThmC4 ==
  cw.pc = "done" =>
    LET kw == FirstMatch(normalized_text(CwInput), cw.rules)
    IN kw \in {S_race, S_test, S_strength, S_long, S_sprint} =>
         /\ cw.workout.classification.type = kw
         /\ classify_workout(CwInput, cw.rules) = kw

\* a title containing 'race' with a structure that alone classifies as lt2
WitC4 ==
  /\ cw.pc = "done"
  /\ cw.workout.title = T_race_day_prep
  /\ cw.rules = TYPE_RULES
  /\ classify_from_structure(CwInput) = S_lt2
  /\ cw.workout.classification.type = S_race

\* C9 as stated: every label is one of the ten workout types, whatever the
\* rule table
OrigC9 ==
  cw.pc = "done" =>
    /\ cw.workout.classification.type \in WORKOUT_TYPES
    /\ classify_workout(CwInput, cw.rules) \in WORKOUT_TYPES

\* the steps (dict items) of the extracted blocks that carry a positive
\* intensity target
CwTargetedSteps ==
  LET blocks == extract_structure(CwInput)
  IN UNION { { <<b, s>> : s \in { s \in 1..Len(blocks[b].steps) :
                                     /\ blocks[b].steps[s].isDict
                                     /\ RPos(step_intensity_pct(blocks[b].steps[s])) } } :
             b \in 1..Len(blocks) }

\* the structural signal has nothing to say: no block was extracted or no
\* step carries a positive intensity target
CwAbstains == extract_structure(CwInput) = <<>> \/ CwTargetedSteps = {}

\* C17: when the keyword label is not one of race, test, strength, long,
\* sprint, the structural signal abstains exactly when no block is
\* extracted or no step carries a positive target; the classification is the
\* structural label whenever there is one and the keyword label otherwise.
ThmC17 ==
  cw.pc = "done" =>
    LET kw == FirstMatch(normalized_text(CwInput), cw.rules)
        st == classify_from_structure(CwInput)
        res == classify_with_source(CwInput, cw.rules)
    IN kw \notin {S_race, S_test, S_strength, S_long, S_sprint} =>
         /\ (st = <<>>) <=> CwAbstains
         /\ ~CwAbstains =>
              /\ res = [label |-> st, source |-> "structure"]
              /\ cw.workout.classification.type = st
         /\ CwAbstains =>
              /\ res = [label |-> kw, source |-> "keyword"]
              /\ cw.workout.classification.type = kw

\* the title says threshold (lt2) and the structure alone classifies as lt1
WitC17 ==
  /\ cw.pc = "done"
  /\ cw.rules = TYPE_RULES
  /\ FirstMatch(normalized_text(CwInput), cw.rules) = S_lt2
  /\ classify_from_structure(CwInput) = S_lt1
  /\ cw.workout.classification.type = S_lt1

\* the title says threshold and the blocks extracted carry no target
WitC17_abstains ==
  /\ cw.pc = "done"
  /\ cw.rules = TYPE_RULES
  /\ FirstMatch(normalized_text(CwInput), cw.rules) = S_lt2
  /\ extract_structure(CwInput) # <<>>
  /\ CwAbstains
  /\ cw.workout.classification.type = S_lt2

\* the order of the rules of the default table
KeywordOrder ==
  <<S_race, S_test, S_vo2, S_sprint, S_lt2, S_lt1, S_long, S_strength, S_easy>>

S_threshold == <<"t","h","r","e","s","h","o","l","d">>

\* C18: the keyword label is the type of the first rule of the table, in
\* table order, one of whose keywords occurs in the lower-cased text of the
\* title, description, coach comments and tags, and other when no rule
\* matches; the default table is ordered race, test, vo2, sprint, lt2, lt1,
\* long, strength, easy, so a text with both 'race' and 'threshold' is race.
ThmC18 ==
  cw.pc = "done" =>
    LET text == normalized_text(CwInput)
        kw == classify_by_keywords(CwInput, cw.rules)
    IN /\ kw = FirstMatch(text, cw.rules)
       /\ CwAbstains => cw.workout.classification.type = kw
       /\ cw.rules = TYPE_RULES =>
            /\ [i \in 1..Len(TYPE_RULES) |-> TYPE_RULES[i].type] = KeywordOrder
            /\ kw \in WORKOUT_TYPES
            /\ IsSubstr(S_race, text) => kw = S_race
            /\ IsSubstr(S_tempo, text) /\ IsSubstr(S_easy, text)
                 /\ kw \notin {S_race, S_test, S_vo2, S_sprint, S_lt2} => kw = S_lt1

\* 'Threshold Intervals' with the description 'Local race effort': both the
\* race rule and the lt2 rule match, and the label is race
WitC18 ==
  /\ cw.pc = "done"
  /\ cw.rules = TYPE_RULES
  /\ cw.workout.title = T_threshold_intervals
  /\ IsSubstr(S_race, normalized_text(CwInput))
  /\ IsSubstr(S_threshold, normalized_text(CwInput))
  /\ classify_by_keywords(CwInput, cw.rules) = S_race
  /\ cw.workout.classification.type = S_race

\* 'Easy tempo run' matches the lt1 rule and the easy rule: lt1
WitC18_lt1 ==
  /\ cw.pc = "done"
  /\ cw.rules = TYPE_RULES
  /\ cw.workout.title = T_easy_tempo
  /\ CwAbstains
  /\ cw.workout.classification.type = S_lt1

\* the zone of the targeted step s of the extracted block b
CwStepZone(b, s) ==
  LET block == extract_structure(CwInput)[b]
      step == block.steps[s]
  IN classify_zone(step_intensity_pct(step), BlockType(block),
                   IF step.intensityClass = <<>> THEN S_active
                   ELSE step.intensityClass,
                   DEFAULT_ZONE_THRESHOLDS)

\* the number of targeted steps of a zone
CwZoneCount(zone) ==
  Cardinality({ bs \in CwTargetedSteps : CwStepZone(bs[1], bs[2]) = zone })

\* some targeted step has a percentage above 105
CwPeakAbove105 ==
  \E bs \in CwTargetedSteps :
     RLt(R(105), step_intensity_pct(extract_structure(CwInput)[bs[1]].steps[bs[2]]))

\* the load accumulated for a zone
CwZoneLoad(zone) ==
  StructureBlocks(StructureAcc0, extract_structure(CwInput)).zone_loads[zone]

CwVo2Rung ==
  RLe(R(180), CwZoneLoad(S_vo2)) \/ (CwZoneCount(S_vo2) >= 2 /\ CwPeakAbove105)
CwLt2Rung ==
  \/ RLe(R(180), RAdd(CwZoneLoad(S_lt2), CwZoneLoad(S_vo2)))
  \/ CwZoneCount(S_lt2) + CwZoneCount(S_vo2) >= 2
CwLt1Rung == RLe(R(300), CwZoneLoad(S_lt1)) \/ CwZoneCount(S_lt1) >= 2

\* C19: when some step carries a positive target, the structural label is
\* vo2 if the vo2 load is at least 180 or two vo2 steps peak above 105; else
\* lt2 if the lt2 + vo2 load is at least 180 or there are two lt2/vo2 steps;
\* else lt1 if the lt1 load is at least 300 or there are two lt1 steps; else
\* easy.
ThmC19 ==
  (cw.pc = "done" /\ ~CwAbstains) =>
    LET st == classify_from_structure(CwInput)
    IN /\ st = (IF CwVo2Rung THEN S_vo2
                ELSE IF CwLt2Rung THEN S_lt2
                ELSE IF CwLt1Rung THEN S_lt1
                ELSE S_easy)
       /\ FirstMatch(normalized_text(CwInput), cw.rules)
            \notin {S_race, S_test, S_strength, S_long, S_sprint}
          => cw.workout.classification.type = st

\* test_classify_structure_ignores_short_hard_opener: 60 s at 105-110 then
\* 3600 s at 68-72 classifies as easy
WitC19 ==
  /\ cw.pc = "done"
  /\ cw.workout.title = T_tuesday_run
  /\ extract_structure(CwInput) = Blocks_opener
  /\ CwZoneCount(S_vo2) = 1
  /\ cw.workout.classification.type = S_easy

\* test_classify_structured_steps_payload: two 120 s steps at 112-116
\* classify as vo2
WitC19_vo2 ==
  /\ cw.pc = "done"
  /\ cw.workout.title = T_tuesday_run
  /\ cw.workout.structuredSteps = ListPayload(FALSE, Steps_vo2)
  /\ CwZoneLoad(S_vo2) = R(240)
  /\ cw.workout.classification.type = S_vo2

\* two short vo2 steps: vo2 by the step count alone
WitC19_count ==
  /\ cw.pc = "done"
  /\ cw.workout.title = T_tuesday_run
  /\ extract_structure(CwInput) = Blocks_short_vo2
  /\ ~RLe(R(180), CwZoneLoad(S_vo2))
  /\ cw.workout.classification.type = S_vo2

\* the steps (dict items) of the extracted blocks
CwAllSteps ==
  LET blocks == extract_structure(CwInput)
  IN UNION { { <<b, s>> : s \in { s \in 1..Len(blocks[b].steps) :
                                     blocks[b].steps[s].isDict } } :
             b \in 1..Len(blocks) }

\* the length of step s of block b in seconds, by the conversion table
CwSeconds(b, s) ==
  LET length == extract_structure(CwInput)[b].steps[s].length
      unit == Lower(length.unit)
  IN IF length.value.t # "num" \/ ~RPos(length.value.v) THEN RZero
     ELSE CASE unit = S_second -> length.value.v
            [] unit = S_minute -> RMul(length.value.v, R(60))
            [] unit = S_hour -> RMul(length.value.v, R(3600))
            [] unit = S_meter -> RDiv(length.value.v, R(4))
            [] unit = S_kilometer -> RMul(length.value.v, R(250))
            [] OTHER -> RZero

CwIsRepetition(b) ==
  Lower(Strip(BlockType(extract_structure(CwInput)[b]))) = S_repetition

\* the repetition count as stated: the length value of a repetition block
CwStatedReps(b) ==
  LET length == extract_structure(CwInput)[b].length
  IN IF CwIsRepetition(b) /\ length.value.t = "num" THEN length.value.v ELSE R(1)

\* the repetition count applied: the length value truncated to an integer,
\* 1 when the value is missing, zero or negative
CwAppliedReps(b) ==
  LET length == extract_structure(CwInput)[b].length
  IN IF /\ CwIsRepetition(b)
        /\ length.value.t = "num"
        /\ RLe(R(1), length.value.v)
     THEN R(RTrunc(length.value.v))
     ELSE R(1)

CwStatedLoad(b, s) == RMul(CwSeconds(b, s), CwStatedReps(b))

\* the load applied: 30 seconds for a targeted step whose weighted length
\* is not positive
CwAppliedLoad(b, s) ==
  LET load == RMul(CwSeconds(b, s), CwAppliedReps(b))
  IN IF ~RPos(load) /\ <<b, s>> \in CwTargetedSteps THEN R(30) ELSE load

RECURSIVE CwLoadSum(_, _)
CwLoadSum(steps, stated) ==
  IF steps = {} THEN RZero
  ELSE LET bs == CHOOSE x \in steps : TRUE
       IN RAdd(IF stated THEN CwStatedLoad(bs[1], bs[2])
               ELSE CwAppliedLoad(bs[1], bs[2]),
               CwLoadSum(steps \ {bs}, stated))

CwZoneSteps(zone) == { bs \in CwAllSteps : CwStepZone(bs[1], bs[2]) = zone }

\* C20 (amended): the load of a zone is the sum over its steps of the length
\* in seconds (second, minute x 60, hour x 3600, meter / 4, kilometer x 250,
\* 0 otherwise) times the repetition count of the block, where the count of
\* a repetition block is its length value truncated to an integer and taken
\* as 1 when missing or below 1, and where a targeted step whose weighted
\* length is not positive counts for 30 seconds.
ThmC20 ==
  cw.pc = "done" =>
    \A zone \in Zones : CwZoneLoad(zone) = CwLoadSum(CwZoneSteps(zone), FALSE)

\* 4 x (480 s at 94-104 / 120 s rest): 1920 s of lt2 load, 480 s of easy
\* load beside the 600 s of the ramp
WitC20 ==
  /\ cw.pc = "done"
  /\ extract_structure(CwInput) = Blocks_rep
  /\ CwZoneLoad(S_lt2) = R(1920)
  /\ CwZoneLoad(S_easy) = R(1080)

\* a targeted step of 0 seconds carries 30 s of load
WitC20_default ==
  /\ cw.pc = "done"
  /\ extract_structure(CwInput) = Blocks_zero
  /\ CwSeconds(1, 1) = RZero
  /\ CwZoneLoad(S_lt2) = R(30)
  /\ CwZoneLoad(S_lt1) = R(30)

\* C20 as stated: the load of a zone is the sum of length in seconds times
\* the length value of the repetition block, and a step of 0 seconds adds
\* nothing
OrigC20 ==
  cw.pc = "done" =>
    \A zone \in Zones : CwZoneLoad(zone) = CwLoadSum(CwZoneSteps(zone), TRUE)

(***************************************************************************)
(* SpecPZ: one call of parse_workout_zones on every workout of the bounded *)
(* sets.                                                                   *)
(***************************************************************************)
MaxReps == 2

NullJson == [NoPayload EXCEPT !.isStr = TRUE]

PzStepPool ==
  { FloorStep(100, S_second, R(100), S_active),
    FloorStep(100, S_second, R(70), S_rest),
    RangeStep(400, S_meter, R(105), R(110), S_active),
    StepItem(Num(R(5)), S_minute, <<>>, S_active),
    StepItem(Num(R(60)), S_second, <<>>, S_active),
    FloorStep(0, S_second, R(85), S_active) }

PzStepLists ==
  { <<>> } \cup { <<a>> : a \in PzStepPool }
  \cup { <<a, b>> : a \in PzStepPool, b \in PzStepPool }

PzBlockLists ==
  { << BlockItem(t, Num(R(n)), ss) >> :
      t \in {S_step, S_repetition, S_rampUp}, n \in 1..MaxReps, ss \in PzStepLists }
  \cup
  { \* test_parse_workout_zones_with_structure_and_scaling, after a ramp
    << BlockItem(S_rampUp, Num(R(1)), << FloorStep(300, S_second, R(110), S_warmUp) >>),
       BlockItem(S_repetition, Num(Rat(5, 2)),
         << FloorStep(100, S_second, R(100), S_active),
            FloorStep(100, S_second, R(70), S_rest) >>) >>,
    << BlockItem(<<>>, Null, << StepItem(NaS, S_second, <<>>, S_active) >>) >>,
    << ScalarItem >> }

PzStructures ==
  { DictPayload(s, S_percentOfThresholdPace, b, <<>>) :
      s \in BOOLEAN, b \in PzBlockLists }
  \cup
  { NoPayload, BadJson, NullJson, ScalarPayload(TRUE),
    ListPayload(TRUE, << ScalarItem >>), ListPayload(FALSE, <<>>),
    ListPayload(FALSE, Steps_vo2),
    DictPayload(FALSE, <<>>, <<>>, <<>>),
    DictPayload(TRUE, <<>>, <<>>, <<>>),
    DictPayload(FALSE, <<>>, Blocks_lt2, <<>>),
    DictPayload(FALSE, S_pace, Blocks_lt2, <<>>),
    DictPayload(FALSE, S_percentOfFtp, Blocks_lt2, <<>>),
    DictPayload(FALSE, S_percentOfThresholdHr, Blocks_opener, <<>>) }

PzDistances == { Null, Num(R(0)), Num(R(2720)), Num(R(12345)), Num(Rat(1001, 2)), NaS }

PzThresholds == { DEFAULT_ZONE_THRESHOLDS,
                  [easy_max |-> 78, lt1_max |-> 93, lt2_max |-> 108] }

PzInit ==
  /\ IdleButPz
  /\ \E st \in PzStructures, d \in PzDistances, ts \in {R(4), Rat(7, 2)},
        th \in PzThresholds :
       pz = [pc |-> "call", workout |-> [distance |-> d, structure |-> st],
             threshold_speed |-> ts, thresholds |-> th,
             out |-> Returned(ZeroZones, RZero)]

PzCall ==
  /\ pz.pc = "call"
  /\ pz' = [pz EXCEPT !.pc = "done",
              !.out = parse_workout_zones(pz.workout, pz.threshold_speed,
                                          pz.thresholds)]
  /\ FramePz

SpecPZ == PzInit /\ [][PzCall]_vars

\* the structure is usable: an object (possibly given as JSON text) with a
\* percent metric
PzUsable == pz.workout.structure.k = "dict"
            /\ pz.workout.structure.metric \in PercentMetrics

PzActual == FloatOrZero(pz.workout.distance)
PzRaw == RawZones(pz.workout, pz.threshold_speed, pz.thresholds)

\* C3: the four zone distances returned sum to the total returned; with a
\* usable structure, a positive raw total and a positive recorded distance
\* the total is the recorded distance and every zone is its raw distance
\* times recorded / raw_total.
ThmC3 ==
  (pz.pc = "done" /\ pz.out.raised = "") =>
    /\ ZoneSum(pz.out.zones) = pz.out.total
    /\ (PzUsable /\ RPos(ZoneSum(PzRaw)) /\ RPos(PzActual)) =>
         /\ pz.out.total = PzActual
         /\ \A z \in Zones :
              RMul(pz.out.zones[z], ZoneSum(PzRaw)) = RMul(PzRaw[z], PzActual)

\* the workout of the scaling test: 2.5 -> 2 repetitions, 2720 m recorded
WitC3 ==
  /\ pz.pc = "done"
  /\ pz.out.raised = ""
  /\ PzUsable
  /\ pz.workout.distance = Num(R(2720))
  /\ RPos(PzRaw[S_lt2]) /\ RPos(PzRaw[S_easy])
  /\ ZoneSum(PzRaw) # PzActual
  /\ pz.out.total = R(2720)

\* every step of the structure contributes zero raw distance
PzAllStepsZero ==
  \A i \in 1..Len(pz.workout.structure.structure) :
    \A j \in 1..Len(pz.workout.structure.structure[i].steps) :
       step_distance_raw(pz.workout.structure.structure[i].steps[j],
                         pz.threshold_speed) = RZero

MaxEntries == 3

Warmup(duration, target) ==
  [NoEntry EXCEPT !.type = S_warmup, !.duration = duration, !.target = target]
Interval(reps, on, on_target, off, off_target) ==
  [NoEntry EXCEPT !.type = S_interval, !.reps = reps, !.on = on,
                  !.on_target = on_target, !.off = off, !.off_target = off_target]
Cooldown(duration, target) ==
  [NoEntry EXCEPT !.type = S_cooldown, !.duration = duration, !.target = target]
Steady(duration, target) ==
  [NoEntry EXCEPT !.type = S_steady, !.duration = duration, !.target = target]

\* {reps: 4, on: "8:00", off: "2:00"}
Interval_4x8 == Interval(Num(R(4)), <<"8",":","0","0">>, Absent, <<"2",":","0","0">>, Absent)

DslEntryPool ==
  { Warmup(<<"1","0",":","0","0">>, <<"7","0","%"," ","T","P">>),
    [Warmup(<<"4","0","0","m">>, Absent) EXCEPT !.name = <<"J","o","g">>],
    Interval_4x8,
    Interval(Num(R(3)), <<"3",":","0","0">>, <<"9","4","-","1","0","0","%"," ","T","P">>, <<"2",":","0","0">>, <<"7","0","-","7","5","%"," ","T","P">>),
    [Interval(AbsentNum, <<"1",".","5","k","m">>, <<"1","0","5","%">>, <<" ","9","0"," ">>, <<"e","a","s","y">>) EXCEPT
       !.off_name = <<"F","l","o","a","t">>, !.name = <<"R","e","p","s">>],
    Interval(Null, <<"1",":","0","0",":","0","0">>, <<"h","a","r","d">>, <<"2","0","0","m">>, <<>>),
    Interval(Num(R(2)), <<"f","a","s","t">>, Absent, <<"2",":","0","0">>, Absent),
    Interval(Num(R(2)), <<"1",":","0","0">>, Absent, Absent, Absent),
    Cooldown(<<"8",":","0","0">>, Absent),
    Steady(<<"5","k","m">>, <<"8","0","%"," ","T","P">>),
    Steady(<<"1","2",":","3","x">>, Absent),
    [NoEntry EXCEPT !.type = <<"r","e","s","t">>],
    NoEntry }

DslInputs ==
  UNION { [1..n -> DslEntryPool] : n \in 0..MaxEntries }

NoStructure == [primaryIntensityMetric |-> <<>>, structure |-> <<>>]

DslInit ==
  /\ IdleButDsl
  /\ \E steps \in DslInputs :
       dsl = [pc |-> "loop", steps |-> steps, i |-> 1, blocks |-> <<>>,
              warmup_steps |-> <<>>, raised |-> "",
              intensity_metric |-> S_percentOfThresholdPace,
              out |-> NoStructure]

DslAt(type) ==
  /\ dsl.pc = "loop"
  /\ dsl.i <= Len(dsl.steps)
  /\ dsl.steps[dsl.i].type = type

DslRaise(exc) == [dsl EXCEPT !.pc = "raised", !.raised = exc]

\* step["type"] of an entry without the key (parsing.py:55)
DslNoType ==
  /\ DslAt(Absent)
  /\ dsl' = DslRaise("KeyError")
  /\ FrameDsl

\* parsing.py:57-68
DslWarmup ==
  /\ DslAt(S_warmup)
  /\ LET step == dsl.steps[dsl.i]
     IN dsl' = IF KeyLengthRaises(step.duration) # ""
               THEN DslRaise(KeyLengthRaises(step.duration))
               ELSE [dsl EXCEPT !.warmup_steps =
                                   Append(@, WarmupStep(step, dsl.warmup_steps)),
                                !.i = @ + 1]
  /\ FrameDsl

\* parsing.py:70-122
DslInterval ==
  /\ DslAt(S_interval)
  /\ LET step == dsl.steps[dsl.i]
     IN dsl' = IF IntervalRaises(step) # ""
               THEN DslRaise(IntervalRaises(step))
               ELSE [dsl EXCEPT !.blocks = Append(Flush(@, dsl.warmup_steps),
                                                  IntervalBlock(step)),
                                !.warmup_steps = <<>>,
                                !.i = @ + 1]
  /\ FrameDsl

\* parsing.py:124-150
DslCooldown ==
  /\ DslAt(S_cooldown)
  /\ LET step == dsl.steps[dsl.i]
     IN dsl' = IF KeyLengthRaises(step.duration) # ""
               THEN [DslRaise(KeyLengthRaises(step.duration)) EXCEPT
                       !.blocks = Flush(@, dsl.warmup_steps),
                       !.warmup_steps = <<>>]
               ELSE [dsl EXCEPT !.blocks = Append(Flush(@, dsl.warmup_steps),
                                                  CooldownBlock(step)),
                                !.warmup_steps = <<>>,
                                !.i = @ + 1]
  /\ FrameDsl

\* parsing.py:124-132, 152-167
DslSteady ==
  /\ DslAt(S_steady)
  /\ LET step == dsl.steps[dsl.i]
     IN dsl' = IF KeyLengthRaises(step.duration) # ""
               THEN [DslRaise(KeyLengthRaises(step.duration)) EXCEPT
                       !.blocks = Flush(@, dsl.warmup_steps),
                       !.warmup_steps = <<>>]
               ELSE [dsl EXCEPT !.blocks = Append(Flush(@, dsl.warmup_steps),
                                                  SteadyBlock(step)),
                                !.warmup_steps = <<>>,
                                !.i = @ + 1]
  /\ FrameDsl

\* an entry of any other type: the buffer is flushed, no block is emitted
DslOtherType ==
  /\ dsl.pc = "loop"
  /\ dsl.i <= Len(dsl.steps)
  /\ dsl.steps[dsl.i].type \notin
       {Absent, S_warmup, S_interval, S_cooldown, S_steady}
  /\ dsl' = [dsl EXCEPT !.blocks = Flush(@, dsl.warmup_steps),
                        !.warmup_steps = <<>>,
                        !.i = @ + 1]
  /\ FrameDsl

\* parsing.py:169-181
DslReturn ==
  /\ dsl.pc = "loop"
  /\ dsl.i > Len(dsl.steps)
  /\ dsl' = [dsl EXCEPT !.pc = "done",
                        !.blocks = Flush(@, dsl.warmup_steps),
                        !.out = [primaryIntensityMetric |-> dsl.intensity_metric,
                                 structure |-> Flush(dsl.blocks, dsl.warmup_steps)]]
  /\ FrameDsl

DslNext ==
  \/ DslNoType \/ DslWarmup \/ DslInterval \/ DslCooldown \/ DslSteady
  \/ DslOtherType \/ DslReturn

SpecDSL == DslInit /\ [][DslNext]_vars

IsIntervalEntry(e) == e.type = S_interval
IsRepetitionBlock(b) == b.type = S_repetition

\* the interval entries compiled so far, and the repetition blocks emitted
DslIntervalsDone == SelectSeq(SubSeq(dsl.steps, 1, dsl.i - 1), IsIntervalEntry)
DslRepetitions == SelectSeq(dsl.blocks, IsRepetitionBlock)

\* C5: every interval entry compiled so far has given exactly one repetition
\* block, in entry order, whose length is {value: reps (1 when the key is
\* absent), unit: repetition} and whose steps are exactly the on step
\* (intensityClass active) followed by the off step (intensityClass rest,
\* named 'Easy' unless off_name is given); the structure returned holds these
\* blocks.
ThmC5 ==
  dsl.pc \in {"loop", "done", "raised"} =>
    /\ Len(DslRepetitions) = Len(DslIntervalsDone)
    /\ \A k \in 1..Len(DslIntervalsDone) :
         LET e == DslIntervalsDone[k]
             b == DslRepetitions[k]
         IN /\ b.length = [value |-> IF e.reps = AbsentNum THEN Num(R(1)) ELSE e.reps,
                           unit |-> S_repetition]
            /\ Len(b.steps) = 2
            /\ b.steps[1].intensityClass = S_active
            /\ b.steps[1].length.value = Num(R(parse_length(e.on).value))
            /\ b.steps[2].intensityClass = S_rest
            /\ b.steps[2].length.value = Num(R(parse_length(e.off).value))
            /\ b.steps[2].name = (IF e.off_name = Absent THEN S_Easy ELSE e.off_name)
    /\ dsl.pc = "done" => dsl.out.structure = dsl.blocks

\* {reps: 4, on: "8:00", off: "2:00"} compiled to one block of two steps
WitC5 ==
  /\ dsl.pc = "done"
  /\ dsl.steps = << Interval_4x8 >>
  /\ Len(dsl.out.structure) = 1
  /\ dsl.out.structure[1].type = S_repetition
  /\ dsl.out.structure[1].length.value = Num(R(4))
  /\ Len(dsl.out.structure[1].steps) = 2
  /\ dsl.out.structure[1].steps[1].length = [value |-> Num(R(480)), unit |-> S_second]
  /\ dsl.out.structure[1].steps[2].name = S_Easy

(***************************************************************************)
(* SpecEst: calc_time_and_distance run entry by entry on every list of at  *)
(* most MaxEstSteps entries of the pool.                                   *)
(***************************************************************************)
MaxEstSteps == 3

Est_warmup == Warmup(<<"1","0",":","0","0">>, <<"7","0","%"," ","T","P">>)
Est_steady == Steady(<<"5","k","m">>, <<"8","0","%"," ","T","P">>)
Est_interval == Interval(Num(R(2)), <<"1",":","0","0">>, <<"1","0","0","%"," ","T","P">>, <<"3","0">>, <<"7","0","%"," ","T","P">>)

EstEntryPool ==
  { Est_warmup, Est_steady, Est_interval,
    Cooldown(<<"4","0","0","m">>, <<"0","%">>),
    Steady(<<"1",":","0","1">>, <<"9","5","-","1","0","0","%">>),
    Interval(AbsentNum, <<"2","0","0","m">>, <<"1","0","5","-","1","1","0","%"," ","T","P">>, <<"1",":","0","0">>, <<"e","a","s","y">>),
    Interval(Num(Rat(5, 2)), <<"0",":","1","5">>, Absent, <<"1","0","0","m">>, <<>>),
    Interval(Null, <<"1",":","0","0">>, Absent, <<"1",":","0","0">>, Absent),
    Interval(Num(R(1)), <<"1",":","0","0">>, Absent, <<"j","o","g">>, Absent),
    [NoEntry EXCEPT !.type = <<"r","e","s","t">>],
    NoEntry }

EstInputs == UNION { [1..n -> EstEntryPool] : n \in 0..MaxEstSteps }

EstInit ==
  /\ IdleButEst
  /\ \E steps \in EstInputs, ts \in {R(4), Rat(7, 2)} :
       est = [pc |-> "loop", steps |-> steps, threshold_speed |-> ts, i |-> 1,
              totals |-> Totals(RZero, RZero), raised |-> "",
              out |-> [seconds |-> 0, meters |-> 0]]

EstRaise(exc) == [est EXCEPT !.pc = "raised", !.raised = exc]

\* upload.py:79-88
EstSimple ==
  /\ est.pc = "loop"
  /\ est.i <= Len(est.steps)
  /\ est.steps[est.i].type \in SimpleTypes
  /\ LET step == est.steps[est.i]
     IN est' = IF KeyLengthRaises(step.duration) # ""
               THEN EstRaise(KeyLengthRaises(step.duration))
               ELSE [est EXCEPT
                       !.totals = AddLeg(@, parse_length(step.duration),
                                         pct_to_speed(step.target,
                                                      est.threshold_speed)),
                       !.i = @ + 1]
  /\ FrameEst

\* upload.py:90-110
EstInterval ==
  /\ est.pc = "loop"
  /\ est.i <= Len(est.steps)
  /\ est.steps[est.i].type = S_interval
  /\ LET step == est.steps[est.i]
     IN est' = IF RepsRaises(step.reps) # "" THEN EstRaise(RepsRaises(step.reps))
               ELSE IF IntervalRaises(step) # ""
               THEN EstRaise(IntervalRaises(step))
               ELSE [est EXCEPT
                       !.totals =
                          AddReps(@, RepsInt(step.reps),
                                  parse_length(step.on),
                                  pct_to_speed(step.on_target, est.threshold_speed),
                                  parse_length(step.off),
                                  pct_to_speed(step.off_target, est.threshold_speed)),
                       !.i = @ + 1]
  /\ FrameEst

\* an entry of any other type, or without a type, adds nothing
EstSkip ==
  /\ est.pc = "loop"
  /\ est.i <= Len(est.steps)
  /\ est.steps[est.i].type \notin SimpleTypes \cup {S_interval}
  /\ est' = [est EXCEPT !.i = @ + 1]
  /\ FrameEst

\* upload.py:113
EstReturn ==
  /\ est.pc = "loop"
  /\ est.i > Len(est.steps)
  /\ est' = [est EXCEPT !.pc = "done",
                        !.out = [seconds |-> HalfUp(est.totals.seconds),
                                 meters |-> HalfUp(est.totals.meters)]]
  /\ FrameEst

EstNext == EstSimple \/ EstInterval \/ EstSkip \/ EstReturn

SpecEst == EstInit /\ [][EstNext]_vars

\* the percent p of a target: the midpoint of a range, the single value, or
\* 72 when there is none
ClaimedPct(target) ==
  IF NoText(target) THEN R(72)
  ELSE IF RangeMatch(target).ok
       THEN Rat(RangeMatch(target).lo + RangeMatch(target).hi, 2)
       ELSE IF LeadingDigits(target) # <<>> THEN R(DigitsVal(LeadingDigits(target)))
            ELSE R(72)

\* (seconds, meters) of one leg, reps times
ClaimedLeg(token, target, reps, ts) ==
  LET len == parse_length(token)
      speed == RDiv(RMul(ts, ClaimedPct(target)), R(100))
  IN IF len.unit = S_second
     THEN Totals(R(reps * len.value), RMul(R(reps * len.value), speed))
     ELSE Totals(IF speed = RZero THEN RZero
                 ELSE RDiv(R(reps * len.value), speed),
                 R(reps * len.value))

ClaimedEntry(e, ts) ==
  IF e.type \in SimpleTypes THEN ClaimedLeg(e.duration, e.target, 1, ts)
  ELSE IF e.type = S_interval
       THEN LET reps == IF RepsInt(e.reps) > 0 THEN RepsInt(e.reps) ELSE 0
                on == ClaimedLeg(e.on, e.on_target, reps, ts)
                off == ClaimedLeg(e.off, e.off_target, reps, ts)
            IN Totals(RAdd(on.seconds, off.seconds), RAdd(on.meters, off.meters))
       ELSE Totals(RZero, RZero)

RECURSIVE ClaimedSum(_, _)
ClaimedSum(entries, ts) ==
  IF entries = <<>> THEN Totals(RZero, RZero)
  ELSE LET rest == ClaimedSum(Tail(entries), ts)
           first == ClaimedEntry(Head(entries), ts)
       IN Totals(RAdd(first.seconds, rest.seconds), RAdd(first.meters, rest.meters))

\* n is x rounded half-up: n - 1/2 <= x < n + 1/2
IsHalfUp(n, x) == RLe(RSub(R(n), Rat(1, 2)), x) /\ RLt(x, RAdd(R(n), Rat(1, 2)))

\* C6: before rounding, the totals are the sum over the entries read so far
\* of (value, value*speed) for a time leg and (value/speed, value) for a
\* distance leg (no time when speed is 0), reps times for each leg of an
\* interval, with speed = threshold_speed * p/100; each total returned is the
\* running total rounded half-up; the example gives (2343, 7328).
ThmC6 ==
  (est.pc \in {"loop", "done"}) =>
    /\ est.totals = ClaimedSum(SubSeq(est.steps, 1, est.i - 1), est.threshold_speed)
    /\ est.pc = "done" =>
         /\ IsHalfUp(est.out.seconds, est.totals.seconds)
         /\ IsHalfUp(est.out.meters, est.totals.meters)
         /\ (est.steps = << Est_warmup, Est_steady, Est_interval >>
             /\ est.threshold_speed = R(4))
            => est.out = [seconds |-> 2343, meters |-> 7328]

\* the example: 2342.5 s before rounding, returned as 2343
WitC6 ==
  /\ est.pc = "done"
  /\ est.steps = << Est_warmup, Est_steady, Est_interval >>
  /\ est.threshold_speed = R(4)
  /\ est.totals = Totals(Rat(4685, 2), R(7328))
  /\ est.out = [seconds |-> 2343, meters |-> 7328]

(***************************************************************************)
(* SpecAZ: analyze_zones run workout by workout on every list of at most   *)
(* MaxWorkouts workouts of the pool, for each sport and grouping.          *)
(***************************************************************************)
MaxWorkouts == 3

Workout(sport_id, day, distance, structure) ==
  [workoutTypeValueId |-> sport_id, workoutDay |-> day, distance |-> distance,
   structure |-> structure]

W_run_jan10 == Workout(3, <<"2","0","2","6","-","0","1","-","1","0">>, Num(R(10000)), NoPayload)
W_run_feb10 == Workout(3, <<"2","0","2","6","-","0","2","-","1","0">>, Num(R(5000)), NoPayload)
W_bike_jan10 == Workout(2, <<"2","0","2","6","-","0","1","-","1","0">>, Num(R(40000)), NoPayload)

AzWorkoutPool ==
  { W_run_jan10, W_run_feb10, W_bike_jan10,
    \* a timestamp; a structure that splits the distance over zones
    Workout(3, <<"2","0","2","6","-","0","1","-","0","5","T","0","6",":","3","0",":","0","0">>,
            Num(R(2720)),
            DictPayload(TRUE, S_percentOfThresholdPace, Blocks_lt2, <<>>)),
    \* ISO week 2026-W01 of the month 2025-12
    Workout(3, <<"2","0","2","5","-","1","2","-","2","9">>, Num(R(8000)), NoPayload),
    \* undated workouts
    Workout(3, Absent, Num(R(3000)), NoPayload),
    Workout(2, NoneDay, Num(R(3000)), NoPayload),
    \* a workoutDay that is not a date
    Workout(3, <<"n","o","t","-","a","-","d","a","t","e">>, Num(R(1000)), NoPayload),
    \* a distance that is not a number
    Workout(2, <<"2","0","2","6","-","0","2","-","1","1">>, NaS, NoPayload),
    \* a structure given as JSON text that decodes to a list
    Workout(3, <<"2","0","2","6","-","0","2","-","1","2">>, Num(R(1000)), ListPayload(TRUE, << ScalarItem >>)) }

AzInputs == UNION { [1..n -> AzWorkoutPool] : n \in 0..MaxWorkouts }

NoReport ==
  [period |-> [start |-> <<>>, end |-> <<>>], sport |-> "", total_distance |-> RZero,
   zone_distribution |-> <<>>, by_period |-> <<>>]

AzInit ==
  /\ IdleButAz
  /\ \E ws \in AzInputs, sport \in {"run", "bike"}, group_by \in {"week", "month"} :
       az = [pc |-> "start", workouts |-> ws, sport |-> sport,
             group_by |-> group_by, thresholds |-> DEFAULT_ZONE_THRESHOLDS,
             filtered |-> <<>>, i |-> 1, total |-> RZero,
             zone_totals |-> ZeroZones, sessions |-> [z \in Zones |-> 0],
             by_period |-> [k \in {} |-> NewPeriod],
             raised |-> "", out |-> NoReport]

\* the mutant of AzStart: the input list itself is sorted
AzStart_inplace ==
  /\ az.pc = "start"
  /\ LET Wanted(w) == SportIs(w.workoutTypeValueId, az.sport)
     IN az' = [az EXCEPT !.pc = "loop",
                         !.workouts = SortByDay(@),
                         !.filtered = SortByDay(SelectSeq(az.workouts, Wanted))]
  /\ FrameAz

\* analysis.py:318-324: the filter on the sport and the sort on the day
AzStart ==
  /\ az.pc = "start"
  /\ LET Wanted(w) == SportIs(w.workoutTypeValueId, az.sport)
     IN az' = [az EXCEPT !.pc = "loop",
                         !.filtered = SortByDay(SelectSeq(az.workouts, Wanted))]
  /\ FrameAz

\* analysis.py:334-336: a workout without a day is skipped
AzSkip ==
  /\ az.pc = "loop"
  /\ az.i <= Len(az.filtered)
  /\ DayOf(az.filtered[az.i]) = <<>>
  /\ az' = [az EXCEPT !.i = @ + 1]
  /\ FrameAz

\* analysis.py:338-348: one dated workout is added to the totals
AzWorkout ==
  /\ az.pc = "loop"
  /\ az.i <= Len(az.filtered)
  /\ DayOf(az.filtered[az.i]) # <<>>
  /\ LET workout == az.filtered[az.i]
         day == DayOf(workout)
         parsed == parse_workout_zones(workout, R(4), az.thresholds)
     IN az' = IF parsed.raised # ""
              THEN [az EXCEPT !.pc = "raised", !.raised = parsed.raised]
              ELSE IF ~StrptimeOk(day)
              THEN [az EXCEPT !.pc = "raised", !.raised = "ValueError"]
              ELSE [az EXCEPT
                      !.total = RAdd(@, parsed.total),
                      !.zone_totals = AddZones(@, parsed.zones),
                      !.sessions = [z \in Zones |->
                                      IF RPos(parsed.zones[z]) THEN @[z] + 1 ELSE @[z]],
                      !.by_period = AddToPeriod(@, PeriodOf(day, az.group_by),
                                                parsed.zones, parsed.total),
                      !.i = @ + 1]
  /\ FrameAz

\* analysis.py:350-382: the report
AzReport ==
  /\ az.pc = "loop"
  /\ az.i > Len(az.filtered)
  /\ az' = [az EXCEPT
              !.pc = "done",
              !.out =
                 [period |->
                    [start |-> IF az.filtered = <<>> THEN <<>>
                               ELSE Prefix(DaySortKey(az.filtered[1]), 10),
                     end |-> IF az.filtered = <<>> THEN <<>>
                             ELSE Prefix(DaySortKey(az.filtered[Len(az.filtered)]), 10)],
                  sport |-> az.sport,
                  total_distance |-> az.total,
                  zone_distribution |->
                    [z \in Zones |->
                       [distance |-> az.zone_totals[z],
                        pct |-> PctOf(az.zone_totals[z], az.total),
                        sessions |-> az.sessions[z]]],
                  by_period |-> PeriodList(az.by_period)]]
  /\ FrameAz

AzNext == AzStart \/ AzSkip \/ AzWorkout \/ AzReport

SpecAZ == AzInit /\ [][AzNext]_vars

\* the positions of the input workouts of the requested sport that have a day
AzDated ==
  { i \in 1..Len(az.workouts) :
      /\ SportIs(az.workouts[i].workoutTypeValueId, az.sport)
      /\ DayOf(az.workouts[i]) # <<>> }

AzPeriodAt(i) == PeriodOf(DayOf(az.workouts[i]), az.group_by)
AzPeriods == { AzPeriodAt(i) : i \in AzDated }

\* the distance parse_workout_zones gives the workouts at the positions S
RECURSIVE AzDistance(_)
AzDistance(S) ==
  IF S = {} THEN RZero
  ELSE LET i == CHOOSE j \in S : TRUE
       IN RAdd(parse_workout_zones(az.workouts[i], R(4), az.thresholds).total,
               AzDistance(S \ {i}))

\* C7: by_period has exactly one row per distinct period key of the dated
\* workouts of the requested sport, in ascending key order, and the
\* distances of the rows and of the report come from these workouts only.
ThmC7 ==
  az.pc = "done" =>
    LET rows == az.out.by_period
    IN /\ Len(rows) = Cardinality(AzPeriods)
       /\ { rows[k].period : k \in 1..Len(rows) } = AzPeriods
       /\ \A k \in 1..(Len(rows) - 1) : StrLess(rows[k].period, rows[k + 1].period)
       /\ \A k \in 1..Len(rows) :
            rows[k].total_distance =
              AzDistance({ i \in AzDated : AzPeriodAt(i) = rows[k].period })
       /\ az.out.total_distance = AzDistance(AzDated)

\* month grouping of a bike workout and the runs of 2026-02-10 and
\* 2026-01-10, given in that order
WitC7 ==
  /\ az.pc = "done"
  /\ az.sport = "run"
  /\ az.group_by = "month"
  /\ az.workouts = << W_bike_jan10, W_run_feb10, W_run_jan10 >>
  /\ Len(az.out.by_period) = 2
  /\ az.out.by_period[1].period = <<"2","0","2","6","-","0","1">>
  /\ az.out.by_period[2].period = <<"2","0","2","6","-","0","2">>
  /\ az.out.by_period[1].total_distance = R(10000)

\* C10 as stated: analyze_zones returns a report for every collection
OrigC10 == az.pc # "raised"

(***************************************************************************)
(* SpecDSL, the warmup runs (C16).                                         *)
(***************************************************************************)
DslIsWarmup(i) == dsl.steps[i].type = S_warmup

\* entry i opens a maximal run of consecutive warmup entries
DslRunStart(i) == DslIsWarmup(i) /\ (i = 1 \/ ~DslIsWarmup(i - 1))

\* the last entry of the run that entry a opens
DslRunEnd(a) ==
  CHOOSE b \in a..Len(dsl.steps) :
    /\ \A j \in a..b : DslIsWarmup(j)
    /\ b = Len(dsl.steps) \/ ~DslIsWarmup(b + 1)

\* the entries that own a block: the first entry of every warmup run and
\* every interval, cooldown and steady entry
DslOwners ==
  { i \in 1..Len(dsl.steps) :
      DslRunStart(i) \/ dsl.steps[i].type \in {S_interval, S_cooldown, S_steady} }

\* the k-th owner in input order
DslOwner(k) ==
  CHOOSE i \in DslOwners : Cardinality({ j \in DslOwners : j < i }) = k - 1

\* the length of the warmup run that ends the entries read so far
DslPending ==
  Cardinality({ j \in 1..(dsl.i - 1) : \A h \in j..(dsl.i - 1) : DslIsWarmup(h) })

\* C16: the structure returned has one block per owner, in input order; the
\* block of a warmup run is one rampUp block holding one step per entry of
\* the run, in order, the first warmUp and the others active; while the
\* entries are read the pending buffer holds exactly the run being read.
ThmC16 ==
  /\ dsl.pc = "loop" => Len(dsl.warmup_steps) = DslPending
  /\ dsl.pc = "done" =>
       /\ Len(dsl.out.structure) = Cardinality(DslOwners)
       /\ \A k \in 1..Len(dsl.out.structure) :
            LET i == DslOwner(k)
                b == dsl.out.structure[k]
            IN IF DslIsWarmup(i)
               THEN /\ b.type = S_rampUp
                    /\ b.length = [value |-> Num(R(1)), unit |-> S_repetition]
                    /\ Len(b.steps) = DslRunEnd(i) - i + 1
                    /\ \A j \in 1..Len(b.steps) :
                         b.steps[j] =
                           DslStep(GetOr(dsl.steps[i + j - 1].name, <<>>),
                                   parse_length(dsl.steps[i + j - 1].duration),
                                   TargetList(dsl.steps[i + j - 1].target),
                                   IF j = 1 THEN S_warmUp ELSE S_active)
               ELSE IF dsl.steps[i].type = S_interval
                    THEN b = IntervalBlock(dsl.steps[i])
                    ELSE /\ b.type = S_step
                         /\ Len(b.steps) = 1
                         /\ b.steps[1].intensityClass =
                              (IF dsl.steps[i].type = S_cooldown THEN S_coolDown
                               ELSE S_active)

\* two warmup entries, an interval, then a third warmup entry: two rampUp
\* blocks around the repetition block
WitC16 ==
  /\ dsl.pc = "done"
  /\ Len(dsl.steps) = 3
  /\ DslIsWarmup(1) /\ dsl.steps[2].type = S_interval /\ DslIsWarmup(3)
  /\ Len(dsl.out.structure) = 3
  /\ dsl.out.structure[1].type = S_rampUp
  /\ dsl.out.structure[2].type = S_repetition
  /\ dsl.out.structure[3].type = S_rampUp
  /\ dsl.out.structure[3].steps[1].intensityClass = S_warmUp

\* two consecutive warmup entries share one rampUp block
WitC16_run ==
  /\ dsl.pc = "done"
  /\ Len(dsl.steps) = 3
  /\ DslIsWarmup(1) /\ DslIsWarmup(2) /\ dsl.steps[3].type = S_cooldown
  /\ Len(dsl.out.structure) = 2
  /\ Len(dsl.out.structure[1].steps) = 2
  /\ dsl.out.structure[1].steps[2].intensityClass = S_active

(***************************************************************************)
(* SpecChunk: utils/date_ranges.py chunk_date_range driven by the loop of  *)
(* fetch_workouts_in_chunks (commands/common.py:67-74).  A date is its     *)
(* proleptic Gregorian ordinal; date + timedelta raises OverflowError      *)
(* beyond date.max, 9999-12-31.  A request is the pair of dates that       *)
(* strftime formats, one to one, into start_date and end_date.             *)
(***************************************************************************)
MaxSpan == 6
MaxChunkDays == 4

DateMax == Ordinal(9999, 12, 31)

Min2(a, b) == IF a < b THEN a ELSE b

\* the first days of the ranges tried: one in 2026 and one that ends the
\* calendar
ChBases == { Ordinal(2026, 1, 1), DateMax - MaxSpan }

ChInit ==
  /\ IdleButCh
  /\ \E in \in
        { [start |-> b + s, end |-> b + e, chunk_days |-> c] :
            b \in ChBases, s \in 0..MaxSpan, e \in (0 - 1)..MaxSpan,
            c \in 1..MaxChunkDays }
        \cup { [start |-> Ordinal(2026, 1, 1), end |-> Ordinal(2026, 4, 15),
                chunk_days |-> 90] } :
       ch = [pc |-> "test", start |-> in.start, end |-> in.end,
             chunk_days |-> in.chunk_days, cursor |-> in.start, chunk_end |-> 0,
             chunks |-> <<>>, requests |-> <<>>, raised |-> "None"]

\* date_ranges.py:102-104: one more chunk is yielded
ChYield ==
  /\ ch.pc = "test"
  /\ ch.cursor <= ch.end
  /\ ch.cursor + (ch.chunk_days - 1) <= DateMax
  /\ LET chunk_end == Min2(ch.cursor + (ch.chunk_days - 1), ch.end)
     IN ch' = [ch EXCEPT !.pc = "yielded", !.chunk_end = chunk_end,
                 !.chunks = Append(@, <<ch.cursor, chunk_end>>)]
  /\ FrameCh

\* date_ranges.py:103: cursor + timedelta(days=chunk_days - 1) is beyond
\* date.max
ChYieldOverflow ==
  /\ ch.pc = "test"
  /\ ch.cursor <= ch.end
  /\ ch.cursor + (ch.chunk_days - 1) > DateMax
  /\ ch' = [ch EXCEPT !.pc = "raised", !.raised = "OverflowError"]
  /\ FrameCh

\* common.py:68-74: the body of the loop requests the chunk
ChRequest ==
  /\ ch.pc = "yielded"
  /\ ch' = [ch EXCEPT !.pc = "resume",
              !.requests = Append(@, <<ch.cursor, ch.chunk_end>>)]
  /\ FrameCh

\* date_ranges.py:105
ChResume ==
  /\ ch.pc = "resume"
  /\ ch.chunk_end + 1 <= DateMax
  /\ ch' = [ch EXCEPT !.pc = "test", !.cursor = ch.chunk_end + 1]
  /\ FrameCh

\* date_ranges.py:105: chunk_end + timedelta(days=1) is beyond date.max
ChResumeOverflow ==
  /\ ch.pc = "resume"
  /\ ch.chunk_end + 1 > DateMax
  /\ ch' = [ch EXCEPT !.pc = "raised", !.raised = "OverflowError"]
  /\ FrameCh

\* date_ranges.py:102: the loop ends
ChStop ==
  /\ ch.pc = "test"
  /\ ch.cursor > ch.end
  /\ ch' = [ch EXCEPT !.pc = "done"]
  /\ FrameCh

ChNext ==
  ChYield \/ ChYieldOverflow \/ ChRequest \/ ChResume \/ ChResumeOverflow
  \/ ChStop

SpecChunk == ChInit /\ [][ChNext]_vars

\* the requests partition [start, end]: the first starts at start, the last
\* ends at end, each next one starts the day after the previous one ends,
\* none is longer than chunk_days, and every day is requested exactly once;
\* nothing is requested when start > end
ChPartition ==
  LET r == ch.requests
  IN IF ch.start > ch.end THEN r = <<>>
     ELSE /\ r # <<>>
          /\ r = ch.chunks
          /\ r[1][1] = ch.start
          /\ r[Len(r)][2] = ch.end
          /\ \A k \in 1..Len(r) :
               /\ r[k][1] <= r[k][2]
               /\ r[k][2] - r[k][1] + 1 <= ch.chunk_days
               /\ k > 1 => r[k][1] = r[k - 1][2] + 1
          /\ \A d \in ch.start..ch.end :
               Cardinality({ k \in 1..Len(r) : r[k][1] <= d /\ d <= r[k][2] }) = 1

\* every range that ends at least chunk_days before date.max is chunked to
\* the end, into a partition
ChPartitionInCalendar ==
  /\ ch.pc = "raised" => ch.end + ch.chunk_days > DateMax
  /\ ch.pc = "done" => ChPartition

\* test_chunk_date_range: 2026-01-01..2026-04-15 by 90 days
ChTestChunks ==
  /\ ch.pc = "done"
  /\ ch.chunk_days = 90
  /\ ch.requests = << <<Ordinal(2026, 1, 1), Ordinal(2026, 3, 31)>>,
                      <<Ordinal(2026, 4, 1), Ordinal(2026, 4, 15)>> >>

\* C15 as stated: for every start <= end and chunk_days >= 1 the chunking
\* ends without an error and the chunks requested partition [start, end];
\* nothing is yielded when start > end.
OrigC15 ==
  /\ ch.pc # "raised"
  /\ ch.pc = "done" => ChPartition

(***************************************************************************)
(* SpecRq: core/api.py TrainingPeaksAPI._request, called up to MaxCalls    *)
(* times on one client.  The server and the network choose the outcome of  *)
(* every attempt; events is the history of what the client did: it slept   *)
(* ("rate", "backoff", n seconds), sent an attempt ("send", n = attempt),  *)
(* entered ("call"), returned ("return") or raised ("raise").              *)
(***************************************************************************)
MaxCalls == 2
MaxRetries == 5

RETRY_STATUSES == {429, 500, 502, 503, 504}

\* what requests.request gives: a transport error or timeout (transport),
\* or a response with a status and a body text; the body of an error
\* response is not looked at
NoResponse == [transport |-> TRUE, status |-> 0, text |-> "none"]

RqResponses ==
  { NoResponse }
  \cup [transport : {FALSE}, status : {200}, text : {"json", "empty", "garbage"}]
  \cup [transport : {FALSE}, status : {404} \cup RETRY_STATUSES, text : {"garbage"}]

RqCalls == { [method |-> "GET", path |-> "/users/v3/user"],
             [method |-> "POST", path |-> "/fitness/v6/athletes/1/workouts"] }

RqEvent(e, n) == [e |-> e, n |-> n]

\* the try body of api.py:53-73 after requests.request returned or raised:
\* the value returned, or the exception caught at api.py:74
Attempt(resp) ==
  IF resp.transport THEN [ok |-> FALSE, value |-> "RequestException"]
  ELSE IF resp.status \in RETRY_STATUSES THEN [ok |-> FALSE, value |-> "HTTPError"]
  ELSE IF resp.status >= 400 THEN [ok |-> FALSE, value |-> "HTTPError"]
  ELSE IF resp.text = "empty" THEN [ok |-> TRUE, value |-> "{}"]
  ELSE IF resp.text = "garbage" THEN [ok |-> FALSE, value |-> "ValueError"]
  ELSE [ok |-> TRUE, value |-> "json"]

\* the mutant of Backoff: the sleep grows without the cap
Backoff_uncapped(attempt) == 2 ^ attempt

\* min(2**attempt, 8) of api.py:78
Backoff(attempt) == Min2(2 ^ attempt, 8)

NoResult == [ok |-> FALSE, value |-> "None", method |-> "None", path |-> "None"]

RqInit ==
  /\ IdleButRq
  /\ \E m \in {0, 2, 3, MaxRetries}, d \in {0, 1} :
       rq = [pc |-> "ready", max_retries |-> m, rate_limit_delay |-> d,
             has_sent_request |-> FALSE, calls |-> 0, call |-> [method |-> "None", path |-> "None"],
             attempt |-> 0, resp |-> NoResponse,
             last_error |-> "None", events |-> <<>>, result |-> NoResult]

\* api.py:42-51: a call enters _request
RqCall ==
  /\ rq.pc = "ready"
  /\ rq.calls < MaxCalls
  /\ \E c \in RqCalls :
       rq' = [rq EXCEPT !.pc = "for", !.call = c, !.calls = @ + 1, !.attempt = 1,
                !.last_error = "None", !.result = NoResult,
                !.events = Append(@, RqEvent("call", 0))]
  /\ FrameRq

\* api.py:52: the loop has one more attempt
RqFor ==
  /\ rq.pc = "for"
  /\ rq.attempt <= rq.max_retries
  /\ rq' = [rq EXCEPT !.pc = "try"]
  /\ FrameRq

\* api.py:54-55: the rate-limit delay
RqRateSleep ==
  /\ rq.pc = "try"
  /\ rq.rate_limit_delay > 0 /\ rq.has_sent_request
  /\ rq' = [rq EXCEPT !.pc = "send",
              !.events = Append(@, RqEvent("rate", rq.rate_limit_delay))]
  /\ FrameRq

\* api.py:54: no delay
RqNoRateSleep ==
  /\ rq.pc = "try"
  /\ ~(rq.rate_limit_delay > 0 /\ rq.has_sent_request)
  /\ rq' = [rq EXCEPT !.pc = "send"]
  /\ FrameRq

\* api.py:57-65: the attempt is sent
RqSend ==
  /\ rq.pc = "send"
  /\ \E r \in RqResponses :
       rq' = [rq EXCEPT !.pc = "response", !.has_sent_request = TRUE, !.resp = r,
                !.events = Append(@, RqEvent("send", rq.attempt))]
  /\ FrameRq

\* api.py:66-73: the attempt succeeded
RqReturn ==
  /\ rq.pc = "response"
  /\ Attempt(rq.resp).ok
  /\ rq' = [rq EXCEPT !.pc = "ready",
              !.result = [ok |-> TRUE, value |-> Attempt(rq.resp).value,
                          method |-> rq.call.method, path |-> rq.call.path],
              !.events = Append(@, RqEvent("return", rq.attempt))]
  /\ FrameRq

\* api.py:74-75: the attempt failed
RqExcept ==
  /\ rq.pc = "response"
  /\ ~Attempt(rq.resp).ok
  /\ rq' = [rq EXCEPT !.pc = "except", !.last_error = Attempt(rq.resp).value,
              !.resp = NoResponse]
  /\ FrameRq

\* api.py:76-77: the last attempt failed
RqBreak ==
  /\ rq.pc = "except"
  /\ rq.attempt >= rq.max_retries
  /\ rq' = [rq EXCEPT !.pc = "raise"]
  /\ FrameRq

\* api.py:78: the back-off, then the next iteration
RqBackoff ==
  /\ rq.pc = "except"
  /\ rq.attempt < rq.max_retries
  /\ rq' = [rq EXCEPT !.pc = "for", !.attempt = @ + 1,
              !.events = Append(@, RqEvent("backoff", Backoff(rq.attempt)))]
  /\ FrameRq

\* api.py:52: the loop is exhausted without an attempt left
RqExhausted ==
  /\ rq.pc = "for"
  /\ rq.attempt > rq.max_retries
  /\ rq' = [rq EXCEPT !.pc = "raise"]
  /\ FrameRq

\* api.py:80
RqRaise ==
  /\ rq.pc = "raise"
  /\ rq' = [rq EXCEPT !.pc = "ready",
              !.result = [ok |-> FALSE, value |-> "APIError",
                          method |-> rq.call.method, path |-> rq.call.path],
              !.events = Append(@, RqEvent("raise", rq.attempt))]
  /\ FrameRq

\* the steps of one call once it is entered
RqRun ==
  RqFor \/ RqRateSleep \/ RqNoRateSleep \/ RqSend \/ RqReturn \/ RqExcept
  \/ RqBreak \/ RqBackoff \/ RqExhausted \/ RqRaise

RqNext == RqCall \/ RqRun

\* a call entered runs on: sleeps end and requests.request returns or times
\* out; whether the client is called again is up to the caller
SpecRq == RqInit /\ [][RqNext]_vars /\ WF_vars(RqRun)

\* no call is entered between the events i and j
RqSameCall(i, j) == \A h \in (i + 1)..j : rq.events[h].e # "call"

\* the sends of the call that event i belongs to, up to event i
RqSendsUpTo(i) ==
  { j \in 1..i : rq.events[j].e = "send" /\ RqSameCall(j, i) }

\* at most max_retries attempts are sent for one call
RqAtMostMaxRetries ==
  \A i \in 1..Len(rq.events) : Cardinality(RqSendsUpTo(i)) <= rq.max_retries

\* the response now held is a success: no transport error, a status that
\* is no error, and a body that is empty or decodes
RqSuccess ==
  /\ ~rq.resp.transport
  /\ rq.resp.status < 400
  /\ rq.resp.text # "garbage"

\* a call that returned: it returned right after a send, that attempt
\* succeeded, and the value is its body ({} for an empty one)
RqReturnsFirstSuccess ==
  \A i \in 1..Len(rq.events) :
     rq.events[i].e = "return" =>
       /\ i > 1 /\ rq.events[i - 1].e = "send"
       /\ i < Len(rq.events) => rq.events[i + 1].e = "call"
       /\ i = Len(rq.events) =>
            /\ rq.pc = "ready" /\ rq.result.ok /\ RqSuccess
            /\ rq.result.value = (IF rq.resp.text = "empty" THEN "{}" ELSE rq.resp.text)

\* a failed attempt that is not the last is followed by the back-off sleep
\* min(2^attempt, 8), attempt being its number within the call, and then by
\* the next attempt; there is no back-off anywhere else
RqBacksOff ==
  \A i \in 1..Len(rq.events) :
     /\ (rq.events[i].e = "send" /\ i < Len(rq.events)) =>
          LET k == Cardinality(RqSendsUpTo(i))
          IN \/ rq.events[i + 1].e = "return"
             \/ /\ rq.events[i + 1].e = "raise"
                /\ k = rq.max_retries
             \/ /\ rq.events[i + 1] =
                     RqEvent("backoff", IF k >= 3 THEN 8 ELSE IF k = 2 THEN 4 ELSE 2)
                /\ k < rq.max_retries
     /\ rq.events[i].e = "backoff" =>
          /\ i > 1 /\ rq.events[i - 1].e = "send"
          /\ i < Len(rq.events) => rq.events[i + 1].e \in {"rate", "send"}

\* a call raises APIError, naming its method and path, only after
\* max_retries failed attempts
RqRaisesAfterMaxRetries ==
  \A i \in 1..Len(rq.events) :
     rq.events[i].e = "raise" =>
       /\ Cardinality(RqSendsUpTo(i)) = rq.max_retries
       /\ i = Len(rq.events) =>
            rq.result = [ok |-> FALSE, value |-> "APIError",
                         method |-> rq.call.method, path |-> rq.call.path]

\* the rate-limit delay is slept right before every attempt but the first
\* request of the client (and only there)
RqRateLimited ==
  \A i \in 1..Len(rq.events) :
     /\ rq.events[i].e = "send" =>
          ((i > 1 /\ rq.events[i - 1] = RqEvent("rate", rq.rate_limit_delay))
             <=> (rq.rate_limit_delay > 0
                    /\ \E j \in 1..(i - 1) : rq.events[j].e = "send"))
     /\ (rq.events[i].e = "rate" /\ i < Len(rq.events)) => rq.events[i + 1].e = "send"

RqSafe ==
  /\ RqAtMostMaxRetries
  /\ RqReturnsFirstSuccess
  /\ RqBacksOff
  /\ RqRaisesAfterMaxRetries
  /\ RqRateLimited

\* a failed attempt with attempts left is followed by the next attempt
RqRetries ==
  \A k \in 1..MaxRetries :
     (rq.pc = "except" /\ rq.attempt = k /\ k < rq.max_retries)
       ~> (rq.pc = "response" /\ rq.attempt = k + 1)

\* every call returns or raises
RqEnds == (rq.pc # "ready") ~> (rq.pc = "ready")

\* C13: one call sends at most max_retries attempts; it returns the body of
\* the first attempt that succeeds and sends nothing after it; a failed
\* attempt with attempts left is followed, after a sleep of min(2^attempt,
\* 8) seconds, by the next attempt, and the last failed attempt by APIError
\* naming the method and path, with no sleep; the rate-limit delay is slept
\* before every attempt but the first request of the client.
ThmC13 == []RqSafe /\ RqRetries /\ RqEnds

\* test_api_retries_then_succeeds: the first attempt times out, the client
\* sleeps 2 seconds and the second attempt returns the body
WitC13 ==
  /\ rq.pc = "ready"
  /\ rq.max_retries = 3 /\ rq.rate_limit_delay = 0
  /\ rq.events = << RqEvent("call", 0), RqEvent("send", 1), RqEvent("backoff", 2),
                    RqEvent("send", 2), RqEvent("return", 2) >>
  /\ rq.result.ok /\ rq.result.value = "json"

\* test_api_raises_after_max_retries, with the rate-limit delay on the
\* second attempt
WitC13_raise ==
  /\ rq.pc = "ready"
  /\ rq.max_retries = 2 /\ rq.rate_limit_delay = 1
  /\ rq.events = << RqEvent("call", 0), RqEvent("send", 1), RqEvent("backoff", 2),
                    RqEvent("rate", 1), RqEvent("send", 2), RqEvent("raise", 2) >>
  /\ rq.result.value = "APIError"

\* the fourth attempt of five fails: the sleep is capped at 8 seconds
WitC13_cap ==
  /\ rq.max_retries = 5
  /\ Len(rq.events) > 1
  /\ rq.events[Len(rq.events) - 1] = RqEvent("send", 4)
  /\ rq.events[Len(rq.events)] = RqEvent("backoff", 8)

(***************************************************************************)
(* SpecLogin: core/auth.py TrainingPeaksAuth.login.  A cookie list is      *)
(* "none" (nothing stored, or not a list), "empty" ([]) or the name of its *)
(* content; the server decides at every exchange whether the cookies give  *)
(* a token, and the browser login yields cookies or raises.  events is the *)
(* history of the sources consulted and the stores written.                *)
(***************************************************************************)
LgEvent(e, ok) == [e |-> e, ok |-> ok]

\* a list of cookies that is not empty
LgTruthy(cookies) == cookies \notin {"none", "empty"}

\* the token the server gives for a list of cookies
TokenOf(cookies) == <<"token", cookies>>

\* None as a token
NoToken == <<"None", "None">>

LgInit ==
  /\ IdleButLg
  /\ \E force \in BOOLEAN, use_1password \in BOOLEAN,
        op_store \in {"none", "empty", "op"},
        local_store \in {"none", "empty", "local"} :
       lg = [pc |-> "start", force |-> force, use_1password |-> use_1password,
             op_store |-> op_store, local_store |-> local_store,
             cookies |-> "none", events |-> <<>>,
             token |-> NoToken, jar |-> "None", raised |-> "None"]

\* the mutant of LgStart: force is not looked at
LgStart_unforced ==
  /\ lg.pc = "start"
  /\ lg' = [lg EXCEPT !.pc = "load_op"]
  /\ FrameLg

\* auth.py:223
LgStart ==
  /\ lg.pc = "start"
  /\ lg' = [lg EXCEPT !.pc = IF lg.force THEN "playwright" ELSE "load_op"]
  /\ FrameLg

\* auth.py:224-225 with _load_op_cookies (auth.py:57-80)
LgLoadOp ==
  /\ lg.pc = "load_op"
  /\ LET op_cookies == IF lg.use_1password /\ lg.op_store # "none"
                       THEN lg.op_store ELSE "none"
     IN lg' = [lg EXCEPT !.cookies = op_cookies,
                 !.pc = IF LgTruthy(op_cookies) THEN "try_op" ELSE "load_local",
                 !.events = Append(@, LgEvent("op_load", LgTruthy(op_cookies)))]
  /\ FrameLg

\* auth.py:226-228: the exchange of the 1Password cookies
LgTryOp ==
  /\ lg.pc = "try_op"
  /\ \E ok \in BOOLEAN :
       lg' = [lg EXCEPT !.pc = IF ok THEN "copy_op" ELSE "load_local",
                !.token = IF ok THEN TokenOf(lg.cookies) ELSE NoToken,
                !.events = Append(@, LgEvent("op_try", ok))]
  /\ FrameLg

\* auth.py:229-230
LgCopyOp ==
  /\ lg.pc = "copy_op"
  /\ lg' = [lg EXCEPT !.pc = "done", !.local_store = lg.cookies,
              !.jar = lg.cookies,
              !.events = Append(@, LgEvent("op_copy", TRUE))]
  /\ FrameLg

\* auth.py:232-233 with _load_local_cookies (auth.py:134-141)
LgLoadLocal ==
  /\ lg.pc = "load_local"
  /\ lg' = [lg EXCEPT !.cookies = lg.local_store,
              !.pc = IF LgTruthy(lg.local_store) THEN "try_local" ELSE "playwright",
              !.events = Append(@, LgEvent("local_load", LgTruthy(lg.local_store)))]
  /\ FrameLg

\* auth.py:234-237: the exchange of the cached cookies
LgTryLocal ==
  /\ lg.pc = "try_local"
  /\ \E ok \in BOOLEAN :
       lg' = [lg EXCEPT !.pc = IF ok THEN "done" ELSE "playwright",
                !.token = IF ok THEN TokenOf(lg.cookies) ELSE NoToken,
                !.jar = IF ok THEN lg.cookies ELSE "None",
                !.events = Append(@, LgEvent("local_try", ok))]
  /\ FrameLg

\* auth.py:239 with login_playwright (auth.py:175-219): the browser login
\* yields cookies, which it saves to the local store
LgPlaywright ==
  /\ lg.pc = "playwright"
  /\ lg' = [lg EXCEPT !.pc = "try_fresh", !.cookies = "fresh",
              !.local_store = "fresh",
              !.events = Append(@, LgEvent("browser", TRUE))]
  /\ FrameLg

\* auth.py:177-183, 185, 214-215: the browser login raises
LgPlaywrightRaises ==
  /\ lg.pc = "playwright"
  /\ lg' = [lg EXCEPT !.pc = "raised", !.raised = "AuthError",
              !.events = Append(@, LgEvent("browser", FALSE))]
  /\ FrameLg

\* auth.py:240-243: the exchange of the fresh cookies
LgTryFresh ==
  /\ lg.pc = "try_fresh"
  /\ \E ok \in BOOLEAN :
       lg' = [lg EXCEPT !.pc = IF ok THEN "save_op" ELSE "raised",
                !.token = IF ok THEN TokenOf(lg.cookies) ELSE NoToken,
                !.raised = IF ok THEN "None" ELSE "AuthError",
                !.events = Append(@, LgEvent("fresh_try", ok))]
  /\ FrameLg

\* auth.py:245-246 with _save_op_cookies (auth.py:82-108)
LgSaveOp ==
  /\ lg.pc = "save_op"
  /\ lg' = [lg EXCEPT !.pc = "done", !.jar = lg.cookies,
              !.op_store = IF lg.use_1password THEN lg.cookies ELSE @,
              !.events = Append(@, LgEvent("op_save", lg.use_1password))]
  /\ FrameLg

LgNext ==
  LgStart \/ LgLoadOp \/ LgTryOp \/ LgCopyOp \/ LgLoadLocal \/ LgTryLocal
  \/ LgPlaywright \/ LgPlaywrightRaises \/ LgTryFresh \/ LgSaveOp

\* login is sequential code: the subprocess, the exchange (timeout=10) and
\* the browser login (navigation timeouts) all return or raise
SpecLogin == LgInit /\ [][LgNext]_vars /\ WF_vars(LgNext)

\* the place of an event in the fixed order of the sources
LgRank(e) ==
  CASE e = "op_load" -> 1 [] e = "op_try" -> 2 [] e = "op_copy" -> 3
    [] e = "local_load" -> 4 [] e = "local_try" -> 5
    [] e = "browser" -> 6 [] e = "fresh_try" -> 7 [] e = "op_save" -> 8

LgHas(e, ok) == \E i \in 1..Len(lg.events) : lg.events[i] = LgEvent(e, ok)
LgDid(e) == \E i \in 1..Len(lg.events) : lg.events[i].e = e

\* the sources are consulted in the order 1Password, local store, browser,
\* and nothing follows an exchange that gave a token but the store write
\* that belongs to it
LgOrdered ==
  \A i \in 1..Len(lg.events) : \A j \in (i + 1)..Len(lg.events) :
     /\ LgRank(lg.events[i].e) < LgRank(lg.events[j].e)
     /\ lg.events[i] = LgEvent("op_try", TRUE) => lg.events[j].e = "op_copy"
     /\ lg.events[i] = LgEvent("local_try", TRUE) => FALSE
     /\ lg.events[i] = LgEvent("fresh_try", TRUE) => lg.events[j].e = "op_save"

\* a later source is consulted only after every earlier one gave nothing
LgFallsThrough ==
  /\ (LgDid("local_load") \/ (~lg.force /\ LgDid("browser"))) =>
       /\ LgDid("op_load")
       /\ LgHas("op_load", TRUE) => LgHas("op_try", FALSE)
  /\ (~lg.force /\ LgDid("browser")) =>
       /\ LgDid("local_load")
       /\ LgHas("local_load", TRUE) => LgHas("local_try", FALSE)

\* with force neither cache is consulted
LgForced ==
  lg.force =>
    ~(LgDid("op_load") \/ LgDid("op_try") \/ LgDid("op_copy")
      \/ LgDid("local_load") \/ LgDid("local_try"))

\* the stores are written only for cookies that gave a token: 1Password
\* after a fresh login, the local copy of the 1Password cookies after their
\* exchange
LgStores ==
  /\ \A i \in 1..Len(lg.events) :
       /\ lg.events[i].e = "op_save" =>
            i > 1 /\ lg.events[i - 1] = LgEvent("fresh_try", TRUE)
       /\ lg.events[i].e = "op_copy" =>
            i > 1 /\ lg.events[i - 1] = LgEvent("op_try", TRUE)
  /\ lg.op_store = "fresh" => LgHas("op_save", TRUE)
  /\ lg.local_store = "op" => LgDid("op_copy")

\* the result: the token of the first source that exchanged, or AuthError
\* when the fresh cookies did not
LgResult ==
  /\ lg.pc = "done" =>
       /\ lg.raised = "None"
       /\ \/ LgHas("op_try", TRUE) /\ lg.token = TokenOf("op") /\ lg.jar = "op"
          \/ /\ LgHas("local_try", TRUE) /\ ~LgHas("op_try", TRUE)
             /\ lg.token = TokenOf("local") /\ lg.jar = "local"
          \/ /\ LgHas("fresh_try", TRUE)
             /\ ~LgHas("op_try", TRUE) /\ ~LgHas("local_try", TRUE)
             /\ lg.token = TokenOf("fresh") /\ lg.jar = "fresh"
  /\ LgHas("fresh_try", FALSE) => lg.pc = "raised" /\ lg.raised = "AuthError"
  /\ lg.pc = "raised" => LgHas("fresh_try", FALSE) \/ LgHas("browser", FALSE)

LgSafe == LgOrdered /\ LgFallsThrough /\ LgForced /\ LgStores /\ LgResult

\* C14: login(force=False) consults 1Password, then the local store, then
\* the browser, and returns the token of the first source whose cookies
\* exchange, consulting none after it; login(force=True) goes straight to
\* the browser; fresh cookies that do not exchange raise AuthError; cookies
\* go to 1Password only after a fresh login that exchanged and 1Password
\* cookies to the local store only after they exchanged; login ends.
ThmC14 == []LgSafe /\ <>(lg.pc \in {"done", "raised"})

\* the 1Password cookies do not exchange, the cached ones do: the cached
\* token is returned and the browser is never opened
WitC14 ==
  /\ lg.pc = "done"
  /\ ~lg.force
  /\ lg.events = << LgEvent("op_load", TRUE), LgEvent("op_try", FALSE),
                    LgEvent("local_load", TRUE), LgEvent("local_try", TRUE) >>
  /\ lg.token = TokenOf("local")

\* test_login_uses_op_cookies_first
WitC14_op ==
  /\ lg.pc = "done"
  /\ lg.events = << LgEvent("op_load", TRUE), LgEvent("op_try", TRUE),
                    LgEvent("op_copy", TRUE) >>
  /\ lg.local_store = "op"

\* test_login_force_uses_playwright
WitC14_force ==
  /\ lg.pc = "done"
  /\ lg.force /\ lg.use_1password /\ lg.op_store = "fresh"
  /\ lg.events = << LgEvent("browser", TRUE), LgEvent("fresh_try", TRUE),
                    LgEvent("op_save", TRUE) >>

\* test_login_raises_when_exchange_fails
WitC14_raises ==
  /\ lg.pc = "raised"
  /\ ~lg.force
  /\ lg.events[Len(lg.events)] = LgEvent("fresh_try", FALSE)

(***************************************************************************)
(* SpecUpload: commands/upload.py upload_command with workout_exists       *)
(* (core/upload.py:156-166).  The server is the set of workouts it holds,  *)
(* changed by this run only; calls is the history of what was asked of the *)
(* authentication and of the API.                                          *)
(***************************************************************************)
MaxUploads == 2

T_tempo_run == <<"T","e","m","p","o"," ","R","u","n">>
T_tempo_run_padded == <<" ","t","e","m","p","o"," ","r","u","n"," ">>
T_bike == <<"B","i","k","e">>
T_none == <<"n","o","n","e">>

\* a title the server holds as null
NullTitle == << "null" >>

UpDates == {"2026-02-14", "2026-02-15"}

\* the workouts of the input file
UpWorkoutPool ==
  [date : UpDates, title : {T_tempo_run, T_bike}]
  \cup { [date |-> "2026-02-14", title |-> T_tempo_run_padded],
         [date |-> "2026-02-14", title |-> T_none] }

UpInputs ==
  UNION { [1..n -> UpWorkoutPool] : n \in 0..MaxUploads }

\* what the server holds before the run
UpServers ==
  { {},
    { [date |-> "2026-02-14", title |-> T_tempo_run_padded] },
    { [date |-> "2026-02-15", title |-> T_tempo_run],
      [date |-> "2026-02-14", title |-> T_bike] },
    { [date |-> "2026-02-14", title |-> NullTitle] },
    { [date |-> "2026-02-14", title |-> NullTitle],
      [date |-> "2026-02-14", title |-> T_tempo_run] } }

\* str(item.get("title", ""))
ServerTitle(item) == IF item.title = NullTitle THEN S_None ELSE item.title

\* get_existing_workouts: the workouts of the server on one date
get_existing_workouts(server, date_str) == { item \in server : item.date = date_str }

\* the mutant of workout_exists: titles are compared as written
workout_exists_exact(server, date_str, title) ==
  \E item \in get_existing_workouts(server, date_str) : ServerTitle(item) = title

workout_exists(server, date_str, title) ==
  LET normalized == Lower(Strip(title))
  IN \E item \in get_existing_workouts(server, date_str) :
        Lower(Strip(ServerTitle(item))) = normalized

UpCall(op, date, title) == [op |-> op, date |-> date, title |-> title]

UpResult(status, date, title, reason) ==
  [status |-> status, date |-> date, title |-> title, reason |-> reason]

UpInit ==
  /\ IdleButUp
  /\ \E ws \in UpInputs, server \in UpServers, force \in BOOLEAN,
        dry_run \in BOOLEAN :
       up = [pc |-> "start", workouts |-> ws, server |-> server, force |-> force,
             dry_run |-> dry_run, i |-> 1, results |-> <<>>, calls |-> <<>>,
             raised |-> "None"]

\* upload.py:36-39: nothing to upload
UpNoWorkouts ==
  /\ up.pc = "start"
  /\ up.workouts = <<>>
  /\ up' = [up EXCEPT !.pc = "raised", !.raised = "BadParameter"]
  /\ FrameUp

\* upload.py:45-47: authentication and the threshold speed
UpAuthenticate ==
  /\ up.pc = "start"
  /\ up.workouts # <<>>
  /\ ~up.dry_run
  /\ up' = [up EXCEPT !.pc = "loop",
              !.calls = @ \o << UpCall("authenticate", "", <<>>),
                                UpCall("get_athlete_settings", "", <<>>) >>]
  /\ FrameUp

\* upload.py:45: a dry run does not authenticate
UpDryStart ==
  /\ up.pc = "start"
  /\ up.workouts # <<>>
  /\ up.dry_run
  /\ up' = [up EXCEPT !.pc = "loop"]
  /\ FrameUp

\* upload.py:51-56: one workout of a dry run
UpDryRun ==
  /\ up.pc = "loop"
  /\ up.i <= Len(up.workouts)
  /\ up.dry_run
  /\ LET workout == up.workouts[up.i]
     IN up' = [up EXCEPT !.i = @ + 1,
                 !.results = Append(@, UpResult("dry-run", workout.date,
                                                workout.title, "None"))]
  /\ FrameUp

\* upload.py:60-69: the workout exists already
UpSkip ==
  /\ up.pc = "loop"
  /\ up.i <= Len(up.workouts)
  /\ ~up.dry_run
  /\ LET workout == up.workouts[up.i]
     IN /\ ~up.force /\ workout_exists(up.server, workout.date, workout.title)
        /\ up' = [up EXCEPT !.i = @ + 1,
                    !.calls = Append(@, UpCall("get_workouts", workout.date, <<>>)),
                    !.results = Append(@, UpResult("skipped", workout.date,
                                                   workout.title, "already_exists"))]
  /\ FrameUp

\* upload.py:60, 71-85: the workout is created
UpCreate ==
  /\ up.pc = "loop"
  /\ up.i <= Len(up.workouts)
  /\ ~up.dry_run
  /\ LET workout == up.workouts[up.i]
     IN /\ ~(~up.force /\ workout_exists(up.server, workout.date, workout.title))
        /\ up' = [up EXCEPT !.i = @ + 1,
                    !.server = @ \cup { [date |-> workout.date, title |-> workout.title] },
                    !.calls = @ \o (IF up.force THEN <<>>
                                    ELSE << UpCall("get_workouts", workout.date, <<>>) >>)
                                \o << UpCall("create_workout", workout.date, workout.title) >>,
                    !.results = Append(@, UpResult("created", workout.date,
                                                   workout.title, "None"))]
  /\ FrameUp

\* api.py:80 under upload.py:60 or 71: the API call of this workout fails
UpApiError ==
  /\ up.pc = "loop"
  /\ up.i <= Len(up.workouts)
  /\ ~up.dry_run
  /\ up' = [up EXCEPT !.pc = "raised", !.raised = "APIError"]
  /\ FrameUp

\* upload.py:87-99: the results are printed
UpDone ==
  /\ up.pc = "loop"
  /\ up.i > Len(up.workouts)
  /\ up' = [up EXCEPT !.pc = "done"]
  /\ FrameUp

UpNext ==
  UpNoWorkouts \/ UpAuthenticate \/ UpDryStart \/ UpDryRun \/ UpSkip \/ UpCreate
  \/ UpApiError \/ UpDone

SpecUpload == UpInit /\ [][UpNext]_vars

\* two titles are the same ignoring case and surrounding whitespace
UpSameTitle(a, b) == Lower(Strip(a)) = Lower(Strip(b))

\* the server holds a workout on the date of w with the title of w
UpDuplicate(server, w) ==
  \E item \in server :
     /\ item.date = w.date
     /\ item.title # NullTitle
     /\ UpSameTitle(item.title, w.title)

\* the server holds a workout without a title on the date of w
UpUntitled(server, w) ==
  \E item \in server : item.date = w.date /\ item.title = NullTitle

UpCreateCalls ==
  { k \in 1..Len(up.calls) : up.calls[k].op = "create_workout" }

\* the results so far are those of the workouts processed, one each, in
\* input order; a dry run asks nothing of the authentication or the API
UpResults ==
  /\ up.pc \in {"loop", "done"} => Len(up.results) = up.i - 1
  /\ up.pc = "done" => Len(up.results) = Len(up.workouts)
  /\ \A k \in 1..Len(up.results) :
       /\ up.results[k].date = up.workouts[k].date
       /\ up.results[k].title = up.workouts[k].title
       /\ up.results[k].status \in {"created", "skipped", "dry-run"}
       /\ up.results[k].status = "dry-run" <=> up.dry_run
       /\ up.results[k].status = "skipped" => up.results[k].reason = "already_exists"
  /\ up.dry_run => up.calls = <<>>
  /\ Cardinality(UpCreateCalls)
       = Cardinality({ k \in 1..Len(up.results) : up.results[k].status = "created" })

\* the step that processes one workout: it is created only if the run is
\* no dry run and force is given or the server holds no duplicate at that
\* moment; otherwise nothing is created
UpProcessed ==
  (up.pc = "loop" /\ up'.i = up.i + 1) =>
    LET w == up.workouts[up.i]
        r == up'.results[up.i]
        may == ~up.dry_run /\ (up.force \/ ~UpDuplicate(up.server, w))
        created == r.status = "created"
    IN /\ Len(up'.results) = up.i
       /\ created => may
       /\ ~may => r.status = (IF up.dry_run THEN "dry-run" ELSE "skipped")
       /\ (may /\ ~UpUntitled(up.server, w)) => created
       /\ created =>
            /\ up'.server = up.server \cup { [date |-> w.date, title |-> w.title] }
            /\ up'.calls[Len(up'.calls)] = UpCall("create_workout", w.date, w.title)
       /\ ~created =>
            /\ up'.server = up.server
            /\ \A k \in (Len(up.calls) + 1)..Len(up'.calls) :
                  up'.calls[k].op # "create_workout"

WitC12_force ==
  /\ up.pc = "done"
  /\ up.force
  /\ UpDuplicate(up.server \ { [date |-> "2026-02-14", title |-> T_tempo_run] },
                 [date |-> "2026-02-14", title |-> T_tempo_run])
  /\ up.calls = << UpCall("authenticate", "", <<>>),
                   UpCall("get_athlete_settings", "", <<>>),
                   UpCall("create_workout", "2026-02-14", T_tempo_run) >>

\* test_upload_json_dry_run
WitC12_dry ==
  /\ up.pc = "done"
  /\ up.dry_run
  /\ Len(up.results) = 1
  /\ up.results[1].status = "dry-run"
  /\ up.calls = <<>>

(***************************************************************************)
(* core/analysis.py: build_weekly_analysis.  A week bucket is the record   *)
(* the defaultdict creates; by_type keeps the insertion order of the dict  *)
(* as a sequence of [type, distance] entries.  A workout carries its       *)
(* classification as [type |-> t]; t = <<>> stands for a record without a  *)
(* classification or with an empty type.                                   *)
(***************************************************************************)
S_Untitled == <<"U","n","t","i","t","l","e","d">>

\* analysis.py:29-30: str(workout.get("classification", {}).get("type") or "other")
classification_type(workout) ==
  IF workout.classification.type = <<>> THEN S_other
  ELSE workout.classification.type

\* date.fromordinal(n) for an ordinal of the year `near` or a neighbour
FromOrdinal(n, near) ==
  LET y == CHOOSE yy \in {near - 1, near, near + 1} :
             Ordinal(yy, 1, 1) <= n /\ n < Ordinal(yy + 1, 1, 1)
      m == CHOOSE mm \in 1..12 :
             Ordinal(y, mm, 1) <= n /\ n < Ordinal(y, mm, 1) + DaysInMonth(y, mm)
  IN [year |-> y, month |-> m, day |-> n - Ordinal(y, m, 1) + 1]

\* strftime("%Y-%m-%d")
FormatDate(dt) == Pad4(dt.year) \o << "-" >> \o Pad2(dt.month) \o << "-" >> \o Pad2(dt.day)

\* dt.weekday(): 0 for Monday
Weekday(dt) == (Ordinal(dt.year, dt.month, dt.day) + 6) % 7

\* analysis.py:24-26: dt - timedelta(days=dt.weekday()), as an ordinal
get_week_start(date_str) ==
  LET dt == Strptime(Prefix(date_str, 10))
  IN Ordinal(dt.year, dt.month, dt.day) - Weekday(dt)

\* x or y or 0.0 of analysis.py:118-119, before float()
FirstTruthy(x, y) == IF Truthy(x) THEN x ELSE IF Truthy(y) THEN y ELSE Num(RZero)

QualityTypes == { S_lt1, S_lt2, S_vo2, S_race, S_test, S_sprint }
SwimBikeRun == { "swim", "bike", "run" }

\* the value the defaultdict of analysis.py:53-88 creates
NewSport ==
  [distance |-> RZero, sessions |-> 0, tss |-> RZero, by_type |-> <<>>,
   quality_workouts |-> <<>>]
NewWeek ==
  [week |-> <<>>, start_date |-> <<>>, end_date |-> <<>>,
   by_sport |-> [s \in SwimBikeRun |-> NewSport],
   strength_sessions |-> 0, rest_days |-> 0, total_distance |-> RZero,
   total_tss |-> RZero, total_sessions |-> 0, pattern |-> ""]

WeekAt(weeks, key) == IF key \in DOMAIN weeks THEN weeks[key] ELSE NewWeek
PutWeek(weeks, key, bucket) ==
  [k \in DOMAIN weeks \cup {key} |-> IF k = key THEN bucket ELSE weeks[k]]

\* analysis.py:100-106: the bucket of the workout's week with its key and dates
WeekBucket(weeks, day) ==
  LET week_start == get_week_start(day)
      year == Strptime(Prefix(day, 10)).year
  IN [WeekAt(weeks, get_week_key(day)) EXCEPT
        !.week = get_week_key(day),
        !.start_date = FormatDate(FromOrdinal(week_start, year)),
        !.end_date = FormatDate(FromOrdinal(week_start + 6, year))]

\* sport_data["by_type"][workout_type] += distance
AddByType(by_type, workout_type, distance) ==
  IF \E k \in 1..Len(by_type) : by_type[k].type = workout_type
  THEN [k \in 1..Len(by_type) |->
          IF by_type[k].type = workout_type
          THEN [by_type[k] EXCEPT !.distance = RAdd(@, distance)]
          ELSE by_type[k]]
  ELSE Append(by_type, [type |-> workout_type, distance |-> distance])

\* the mutant of AddWorkout: the week totals miss the distance of a workout
\* that is not a quality workout
AddWorkout_quality(bucket, workout, sport) ==
  LET workout_type == classification_type(workout)
      distance == FirstTruthy(workout.distance, workout.distancePlanned).v
      tss == FirstTruthy(workout.tssActual, workout.tssPlanned).v
      quality == [date |-> Prefix(workout.workoutDay, 10), type |-> workout_type,
                  title |-> IF workout.title = Absent THEN S_Untitled
                            ELSE workout.title,
                  distance |-> distance, tss |-> tss]
  IN [bucket EXCEPT
        !.by_sport[sport] =
           [distance |-> RAdd(@.distance, distance),
            sessions |-> @.sessions + 1,
            tss |-> RAdd(@.tss, tss),
            by_type |-> AddByType(@.by_type, workout_type, distance),
            quality_workouts |->
              IF workout_type \in QualityTypes
              THEN Append(@.quality_workouts, quality)
              ELSE @.quality_workouts],
        !.total_distance = IF workout_type \in QualityTypes THEN RAdd(@, distance)
                           ELSE @,
        !.total_tss = RAdd(@, tss),
        !.total_sessions = @ + 1]

\* analysis.py:117-140: a swim, bike or run workout is added to its bucket
AddWorkout(bucket, workout, sport) ==
  LET workout_type == classification_type(workout)
      distance == FirstTruthy(workout.distance, workout.distancePlanned).v
      tss == FirstTruthy(workout.tssActual, workout.tssPlanned).v
      quality == [date |-> Prefix(workout.workoutDay, 10), type |-> workout_type,
                  title |-> IF workout.title = Absent THEN S_Untitled
                            ELSE workout.title,
                  distance |-> distance, tss |-> tss]
  IN [bucket EXCEPT
        !.by_sport[sport] =
           [distance |-> RAdd(@.distance, distance),
            sessions |-> @.sessions + 1,
            tss |-> RAdd(@.tss, tss),
            by_type |-> AddByType(@.by_type, workout_type, distance),
            quality_workouts |->
              IF workout_type \in QualityTypes
              THEN Append(@.quality_workouts, quality)
              ELSE @.quality_workouts],
        !.total_distance = RAdd(@, distance),
        !.total_tss = RAdd(@, tss),
        !.total_sessions = @ + 1]

\* sorted(by_type.items(), key=distance, reverse=True): stable, descending
RECURSIVE ByDistance(_)
ByDistance(by_type) ==
  IF by_type = <<>> THEN <<>>
  ELSE LET e == by_type[Len(by_type)]
           rest == ByDistance(SubSeq(by_type, 1, Len(by_type) - 1))
           before == SelectSeq(rest, LAMBDA x : RLe(e.distance, x.distance))
           after == SelectSeq(rest, LAMBDA x : RLt(x.distance, e.distance))
       IN before \o << e >> \o after

\* analysis.py:164-175: by_type as summary objects
ConvertByType(sport_data) ==
  LET sorted == ByDistance(sport_data.by_type)
  IN [sport_data EXCEPT
        !.by_type = [k \in 1..Len(sorted) |->
                       [type |-> sorted[k].type, distance |-> sorted[k].distance,
                        pct |-> PctOf(sorted[k].distance, sport_data.distance)]]]

\* analysis.py:150-154
HasRace(row) ==
  \E s \in SwimBikeRun :
    \E k \in 1..Len(row.by_sport[s].quality_workouts) :
      row.by_sport[s].quality_workouts[k].type = S_race

\* analysis.py:146-148
WeekDelta(total, previous_total) ==
  IF ~previous_total.none /\ RPos(previous_total.v)
  THEN SomeDelta(RMul(RDiv(RSub(total, previous_total.v), previous_total.v), R(100)))
  ELSE NoDelta

\* the mutant of WeekRow: the pattern is taken without the previous week
WeekRow_first(row, previous_total) ==
  [row EXCEPT
     !.pattern = classify_week(row.total_distance, row.total_sessions, HasRace(row),
                               NoDelta),
     !.by_sport = [s \in SwimBikeRun |-> ConvertByType(row.by_sport[s])]]

\* analysis.py:144-175: the pattern and the summary objects of one row
WeekRow(row, previous_total) ==
  [row EXCEPT
     !.pattern = classify_week(row.total_distance, row.total_sessions, HasRace(row),
                               WeekDelta(row.total_distance, previous_total)),
     !.by_sport = [s \in SwimBikeRun |-> ConvertByType(row.by_sport[s])]]

RECURSIVE SumOver(_, _)
SumOver(rows, field) ==
  IF rows = <<>> THEN RZero
  ELSE RAdd(SumOver(Tail(rows), field), rows[1][field])

\* analysis.py:177-189
WeeklySummary(ordered) ==
  [total_weeks |-> Len(ordered),
   avg_weekly_distance |->
     IF ordered = <<>> THEN RZero
     ELSE RDiv(SumOver(ordered, "total_distance"), R(Len(ordered))),
   avg_weekly_tss |->
     IF ordered = <<>> THEN RZero
     ELSE RDiv(SumOver(ordered, "total_tss"), R(Len(ordered)))]

(***************************************************************************)
(* SpecWeekly: build_weekly_analysis run workout by workout, then row by   *)
(* row, on every list of at most MaxWeekly workouts of the pool.           *)
(***************************************************************************)
MaxWeekly == 3

Classified(t) == [type |-> t]
Unclassified == [type |-> <<>>]

WeeklyWorkout(sport_id, day, distance, planned, tss, classification, title) ==
  [workoutTypeValueId |-> sport_id, workoutDay |-> day, distance |-> distance,
   distancePlanned |-> planned, tssActual |-> tss, tssPlanned |-> Null,
   classification |-> classification, title |-> title]

D_jan05 == <<"2","0","2","6","-","0","1","-","0","5">>
D_jan06 == <<"2","0","2","6","-","0","1","-","0","6">>
D_jan11 == <<"2","0","2","6","-","0","1","-","1","1","T","0","7",":","3","0",":","0","0">>
D_jan12 == <<"2","0","2","6","-","0","1","-","1","2">>
D_jan19 == <<"2","0","2","6","-","0","1","-","1","9">>
D_jan25 == <<"2","0","2","6","-","0","1","-","2","5">>
D_jan26 == <<"2","0","2","6","-","0","1","-","2","6">>
D_jan31 == <<"2","0","2","6","-","0","1","-","3","1">>
D_feb01 == <<"2","0","2","6","-","0","2","-","0","1">>
D_notadate == <<"n","o","t","-","a","-","d","a","t","e">>

BwWorkoutPool ==
  { \* ISO week 2026-W02: a threshold run, a swim with a planned distance only,
    \* a bike race on the Sunday, a strength session
    WeeklyWorkout(3, D_jan05, Num(R(10000)), Null, Num(R(50)), Classified(S_lt2), T_threshold_intervals),
    WeeklyWorkout(1, D_jan05, Null, Num(R(2000)), Null, Unclassified, Absent),
    WeeklyWorkout(2, D_jan11, Num(R(40000)), Null, Num(R(120)), Classified(S_race), T_local_race),
    WeeklyWorkout(9, D_jan06, Num(R(5000)), Null, Num(R(30)), Classified(S_strength), T_gym),
    \* a second run of 2026-W02, of another type and without a title
    WeeklyWorkout(3, D_jan06, Num(R(6000)), Null, Num(R(20)), Classified(S_easy), Absent),
    \* 2026-W03: a long easy run
    WeeklyWorkout(3, D_jan12, Num(R(30000)), Null, Num(R(90)), Classified(S_easy), T_long_run),
    \* 2026-W04: a rest day; 2026-W05: a sport outside the table
    WeeklyWorkout(7, D_jan19, Null, Null, Null, Unclassified, Absent),
    WeeklyWorkout(13, D_jan26, Num(R(7000)), Null, Num(R(40)), Classified(S_vo2), T_vo2),
    \* no day; a day that is not a date
    WeeklyWorkout(3, Absent, Num(R(3000)), Null, Null, Classified(S_easy), T_tuesday_run),
    WeeklyWorkout(3, D_notadate, Num(R(1000)), Null, Null, Unclassified, Absent) }

BwInputs == UNION { [1..n -> BwWorkoutPool] : n \in 0..MaxWeekly }

NoWeekly == [weeks |-> <<>>, summary |-> WeeklySummary(<<>>)]
NoTotal == [none |-> TRUE, v |-> RZero]

BwInit ==
  /\ IdleButBw
  /\ \E ws \in BwInputs, sport_filter \in {"all", "run"} :
       bw = [pc |-> "loop", workouts |-> ws, sport_filter |-> sport_filter,
             i |-> 1, weeks |-> [k \in {} |-> NewWeek], ordered |-> <<>>,
             j |-> 1, previous_total |-> NoTotal, raised |-> "",
             out |-> NoWeekly]

BwWorkout == bw.workouts[bw.i]
BwSport ==
  IF BwWorkout.workoutTypeValueId \in DOMAIN SPORT_MAP
  THEN SPORT_MAP[BwWorkout.workoutTypeValueId] ELSE "None"
\* analysis.py:91-98: the workout has no day or is not of the requested sport
BwSkipped ==
  \/ DayOf(BwWorkout) = <<>>
  \/ (bw.sport_filter # "all" /\ BwSport # bw.sport_filter)
BwInLoop == bw.pc = "loop" /\ bw.i <= Len(bw.workouts)
BwDayOk == StrptimeOk(Prefix(BwWorkout.workoutDay, 10))
BwBucket == WeekBucket(bw.weeks, BwWorkout.workoutDay)
BwKey == get_week_key(BwWorkout.workoutDay)

\* analysis.py:91-98
BwSkip ==
  /\ BwInLoop
  /\ BwSkipped
  /\ bw' = [bw EXCEPT !.i = @ + 1]
  /\ FrameBw

\* analysis.py:100-101: strptime raises on a day that is not a date;
\* analysis.py:118-119: float raises on a string
BwRaise ==
  /\ BwInLoop
  /\ ~BwSkipped
  /\ \/ ~BwDayOk
     \/ /\ BwSport \in SwimBikeRun
        /\ \/ FirstTruthy(BwWorkout.distance, BwWorkout.distancePlanned).t = "str"
           \/ FirstTruthy(BwWorkout.tssActual, BwWorkout.tssPlanned).t = "str"
  /\ bw' = [bw EXCEPT !.pc = "raised", !.raised = "ValueError"]
  /\ FrameBw

\* the mutant of BwStrength: the strength session counts as a session
BwStrength_session ==
  /\ BwInLoop
  /\ ~BwSkipped
  /\ BwDayOk
  /\ BwWorkout.workoutTypeValueId = 9
  /\ bw' = [bw EXCEPT !.i = @ + 1,
              !.weeks = PutWeek(@, BwKey,
                          [BwBucket EXCEPT !.strength_sessions = @ + 1,
                                           !.total_sessions = @ + 1])]
  /\ FrameBw

\* analysis.py:100-110
BwStrength ==
  /\ BwInLoop
  /\ ~BwSkipped
  /\ BwDayOk
  /\ BwWorkout.workoutTypeValueId = 9
  /\ bw' = [bw EXCEPT !.i = @ + 1,
              !.weeks = PutWeek(@, BwKey,
                          [BwBucket EXCEPT !.strength_sessions = @ + 1])]
  /\ FrameBw

\* analysis.py:100-107, 111-113
BwRest ==
  /\ BwInLoop
  /\ ~BwSkipped
  /\ BwDayOk
  /\ BwWorkout.workoutTypeValueId = 7
  /\ bw' = [bw EXCEPT !.i = @ + 1,
              !.weeks = PutWeek(@, BwKey, [BwBucket EXCEPT !.rest_days = @ + 1])]
  /\ FrameBw

\* analysis.py:100-107, 114-115: any other sport leaves its bucket behind
BwOther ==
  /\ BwInLoop
  /\ ~BwSkipped
  /\ BwDayOk
  /\ BwWorkout.workoutTypeValueId \notin {7, 9}
  /\ BwSport \notin SwimBikeRun
  /\ bw' = [bw EXCEPT !.i = @ + 1, !.weeks = PutWeek(@, BwKey, BwBucket)]
  /\ FrameBw

\* analysis.py:100-107, 117-140
BwAdd ==
  /\ BwInLoop
  /\ ~BwSkipped
  /\ BwDayOk
  /\ BwSport \in SwimBikeRun
  /\ FirstTruthy(BwWorkout.distance, BwWorkout.distancePlanned).t # "str"
  /\ FirstTruthy(BwWorkout.tssActual, BwWorkout.tssPlanned).t # "str"
  /\ bw' = [bw EXCEPT !.i = @ + 1,
              !.weeks = PutWeek(@, BwKey, AddWorkout(BwBucket, BwWorkout, BwSport))]
  /\ FrameBw

\* analysis.py:142-143
BwOrder ==
  /\ bw.pc = "loop"
  /\ bw.i > Len(bw.workouts)
  /\ LET keys == SortedKeys(DOMAIN bw.weeks)
     IN bw' = [bw EXCEPT !.pc = "rows", !.j = 1, !.previous_total = NoTotal,
                 !.ordered = [k \in 1..Len(keys) |-> bw.weeks[keys[k]]]]
  /\ FrameBw

\* analysis.py:144-175
BwRow ==
  /\ bw.pc = "rows"
  /\ bw.j <= Len(bw.ordered)
  /\ bw' = [bw EXCEPT !.j = @ + 1,
              !.ordered[bw.j] = WeekRow(@, bw.previous_total),
              !.previous_total = [none |-> FALSE, v |-> bw.ordered[bw.j].total_distance]]
  /\ FrameBw

\* analysis.py:177-191
BwReturn ==
  /\ bw.pc = "rows"
  /\ bw.j > Len(bw.ordered)
  /\ bw' = [bw EXCEPT !.pc = "done",
              !.out = [weeks |-> bw.ordered, summary |-> WeeklySummary(bw.ordered)]]
  /\ FrameBw

BwNext ==
  BwSkip \/ BwRaise \/ BwStrength \/ BwRest \/ BwOther \/ BwAdd \/ BwOrder
    \/ BwRow \/ BwReturn

SpecWeekly == BwInit /\ [][BwNext]_vars

(***************************************************************************)
(* core/analysis.py: analyze_patterns.  run_by_date and bike_by_date map a *)
(* day to the list of the classification types of its workouts; a Counter  *)
(* is the sequence of its entries in insertion order.                      *)
(***************************************************************************)
\* analysis.py:385-390: max() returns the first of the highest-ranked types;
\* a type outside the table ranks 0
IntensityRank(t) ==
  IF t = S_vo2 THEN 4 ELSE IF t = S_lt2 THEN 3 ELSE IF t = S_lt1 THEN 2
  ELSE IF t = S_easy THEN 1 ELSE 0

day_intensity(types) ==
  IF types = <<>> THEN S_rest
  ELSE types[CHOOSE k \in 1..Len(types) :
               /\ \A m \in 1..Len(types) : IntensityRank(types[m]) <= IntensityRank(types[k])
               /\ \A m \in 1..(k - 1) : IntensityRank(types[m]) < IntensityRank(types[k])]

\* by_date.get(day, [])
TypesOn(by_date, day) == IF day \in DOMAIN by_date THEN by_date[day] ELSE <<>>
AppendOn(by_date, day, t) ==
  [d \in DOMAIN by_date \cup {day} |->
     IF d = day THEN Append(TypesOn(by_date, day), t) ELSE by_date[d]]

HardTypes == { S_lt2, S_vo2 }

\* counter[key] += 1
CountUp(counter, key) ==
  IF \E k \in 1..Len(counter) : counter[k].key = key
  THEN [k \in 1..Len(counter) |->
          IF counter[k].key = key THEN [counter[k] EXCEPT !.count = @ + 1]
          ELSE counter[k]]
  ELSE Append(counter, [key |-> key, count |-> 1])

\* Counter.most_common(): descending count, ties in insertion order
RECURSIVE MostCommon(_)
MostCommon(counter) ==
  IF counter = <<>> THEN <<>>
  ELSE LET e == counter[Len(counter)]
           rest == MostCommon(SubSeq(counter, 1, Len(counter) - 1))
           before == SelectSeq(rest, LAMBDA x : x.count >= e.count)
           after == SelectSeq(rest, LAMBDA x : x.count < e.count)
       IN before \o << e >> \o after

\* f"run={run},bike={bike}"
ComboKey(run, bike) == <<"r","u","n","=">> \o run \o <<",","b","i","k","e","=">> \o bike

\* the mutant of NextDay: the day itself
NextDay_same(day) == FormatDate(Strptime(day))

\* (datetime.strptime(day, "%Y-%m-%d") + timedelta(days=1)).strftime("%Y-%m-%d")
NextDay(day) ==
  LET dt == Strptime(day)
  IN FormatDate(FromOrdinal(Ordinal(dt.year, dt.month, dt.day) + 1, dt.year))

\* day_after[key][next_key] += 1
DayAfterUp(day_after, key, next_key) ==
  [k \in DOMAIN day_after \cup {key} |->
     IF k = key
     THEN CountUp(IF key \in DOMAIN day_after THEN day_after[key] ELSE <<>>, next_key)
     ELSE day_after[k]]

\* the value the defaultdict of analysis.py:439-441 creates
NewLoad == [run_lt2 |-> 0, bike_lt2 |-> 0, run_vo2 |-> 0, total_hard |-> 0]

\* analysis.py:448-457
WeekLoadUp(load, run_intensity, bike_intensity) ==
  [run_lt2 |-> load.run_lt2 + (IF run_intensity = S_lt2 THEN 1 ELSE 0),
   run_vo2 |-> load.run_vo2 + (IF run_intensity = S_vo2 THEN 1 ELSE 0),
   bike_lt2 |-> load.bike_lt2 + (IF bike_intensity = S_lt2 THEN 1 ELSE 0),
   total_hard |-> load.total_hard + (IF run_intensity \in HardTypes THEN 1 ELSE 0)
                                  + (IF bike_intensity \in HardTypes THEN 1 ELSE 0)]

\* round(x, 1) in tenths; a tie needs prev_val to be a multiple of 16
Round1(x) ==
  LET twenty == RMul(x, R(20))
      n == twenty[1] \div twenty[2]
  IN IF twenty[1] >= 0 THEN (n + 1) \div 2 ELSE -(((-twenty[1]) \div twenty[2] + 1) \div 2)

\* analysis.py:462-478: the risk factors of the weeks from position idx on
RECURSIVE RiskFactors(_, _, _)
RiskFactors(weekly, week_keys, idx) ==
  IF idx > Len(week_keys) THEN <<>>
  ELSE LET prev_val == weekly[week_keys[idx - 1]].total_hard
           curr_val == weekly[week_keys[idx]].total_hard
           increase == RMul(Rat(curr_val - prev_val, IF prev_val > 0 THEN prev_val ELSE 1),
                            R(100))
           rest == RiskFactors(weekly, week_keys, idx + 1)
       IN IF prev_val > 0 /\ RLe(R(40), increase)
          THEN << [type |-> "hard_session_spike", week |-> week_keys[idx],
                   increase_pct |-> Round1(increase),
                   severity |-> IF RLe(R(60), increase) THEN "high" ELSE "medium"] >>
               \o rest
          ELSE rest

\* sum(count for ... in combinations.items() if ...)
RECURSIVE CountSum(_)
CountSum(counter) ==
  IF counter = <<>> THEN 0 ELSE counter[1].count + CountSum(Tail(counter))

EasyTypes == { S_easy, S_rest, S_other }

\* analysis.py:496-513
HardDayCorrelation(combinations) ==
  [same_day_both_hard |->
     CountSum(SelectSeq(combinations,
                LAMBDA e : e.key[1] \in HardTypes /\ e.key[2] \in HardTypes)),
   hard_run_easy_bike |->
     CountSum(SelectSeq(combinations,
                LAMBDA e : e.key[1] \in HardTypes /\ e.key[2] \in EasyTypes)),
   hard_bike_easy_run |->
     CountSum(SelectSeq(combinations,
                LAMBDA e : e.key[2] \in HardTypes /\ e.key[1] \in EasyTypes))]

(***************************************************************************)
(* SpecPattern: analyze_patterns run row by row, then day by day, on every *)
(* list of at most MaxPattern workouts of the pool.                        *)
(***************************************************************************)
MaxPattern == 3

PatternWorkout(sport_id, day, classification) ==
  [workoutTypeValueId |-> sport_id, workoutDay |-> day,
   classification |-> classification]

ApWorkoutPool ==
  { \* Monday 2026-01-05: a threshold run and a VO2 ride; the day after: an
    \* easy run and a run classified race
    PatternWorkout(3, D_jan05, Classified(S_lt2)),
    PatternWorkout(2, D_jan05, Classified(S_vo2)),
    PatternWorkout(3, D_jan06, Classified(S_easy)),
    PatternWorkout(3, D_jan06, Classified(S_race)),
    \* Sunday 2026-01-11 (a timestamp), the last day of ISO week 2, and
    \* Sunday 2026-01-25, the last day of ISO week 4
    PatternWorkout(3, D_jan11, Classified(S_lt2)),
    PatternWorkout(2, D_jan25, Classified(S_lt2)),
    \* a swim; a workout without a day
    PatternWorkout(1, D_jan05, Classified(S_vo2)),
    PatternWorkout(2, Absent, Unclassified),
    \* a run without a classification on 2026-01-06; Saturday 2026-01-31
    \* and Sunday 2026-02-01, both of ISO week 5: a VO2 run and a threshold
    \* ride
    PatternWorkout(3, D_jan06, Unclassified),
    PatternWorkout(3, D_jan31, Classified(S_vo2)),
    PatternWorkout(2, D_feb01, Classified(S_lt2)) }

ApInputs == UNION { [1..n -> ApWorkoutPool] : n \in 0..MaxPattern }

NoPatterns ==
  [keys |-> {}, date_range |-> [start |-> <<>>, end |-> <<>>],
   same_day_combinations |-> <<>>, day_after_patterns |-> <<>>,
   weekly_load |-> <<>>, hard_day_correlation |-> HardDayCorrelation(<<>>),
   risk_factors |-> <<>>]

ApInit ==
  /\ IdleButAp
  /\ \E ws \in ApInputs, options \in BOOLEAN :
       ap = [pc |-> "start", workouts |-> ws, multi_sport |-> options,
             injury_risk |-> options, coach_analysis |-> options,
             rows |-> <<>>, i |-> 1,
             run_by_date |-> [d \in {} |-> <<>>],
             bike_by_date |-> [d \in {} |-> <<>>],
             all_dates |-> {}, ordered_dates |-> <<>>, d |-> 1,
             combinations |-> <<>>, day_after |-> [k \in {} |-> <<>>],
             weekly |-> [k \in {} |-> NewLoad], raised |-> "",
             out |-> NoPatterns]

\* analysis.py:400-405: the filter on run and bike and the sort on the day
ApStart ==
  /\ ap.pc = "start"
  /\ LET Wanted(w) == SportIs(w.workoutTypeValueId, "run")
                      \/ SportIs(w.workoutTypeValueId, "bike")
     IN ap' = [ap EXCEPT !.pc = "rows",
                 !.rows = SortByDay(SelectSeq(ap.workouts, Wanted))]
  /\ FrameAp

ApInRows == ap.pc = "rows" /\ ap.i <= Len(ap.rows)
\* str(workout.get("workoutDay", ""))[:10]
ApRowDay == Prefix(DaySortKey(ap.rows[ap.i]), 10)

\* analysis.py:408-410
ApSkip ==
  /\ ApInRows
  /\ ApRowDay = <<>>
  /\ ap' = [ap EXCEPT !.i = @ + 1]
  /\ FrameAp

\* analysis.py:411-417
ApRow ==
  /\ ApInRows
  /\ ApRowDay # <<>>
  /\ LET workout == ap.rows[ap.i]
         workout_type == classification_type(workout)
     IN ap' = [ap EXCEPT
                 !.i = @ + 1,
                 !.all_dates = @ \cup {ApRowDay},
                 !.run_by_date =
                    IF SportIs(workout.workoutTypeValueId, "run")
                    THEN AppendOn(@, ApRowDay, workout_type) ELSE @,
                 !.bike_by_date =
                    IF SportIs(workout.workoutTypeValueId, "bike")
                    THEN AppendOn(@, ApRowDay, workout_type) ELSE @]
  /\ FrameAp

\* analysis.py:419-421
ApDates ==
  /\ ap.pc = "rows"
  /\ ap.i > Len(ap.rows)
  /\ ap' = [ap EXCEPT !.pc = "days", !.d = 1,
              !.ordered_dates = SortedKeys(ap.all_dates)]
  /\ FrameAp

ApDayAt == ap.ordered_dates[ap.d]
ApRunIntensity == day_intensity(TypesOn(ap.run_by_date, ApDayAt))
ApBikeIntensity == day_intensity(TypesOn(ap.bike_by_date, ApDayAt))
ApHardDay == ApRunIntensity \in HardTypes \/ ApBikeIntensity \in HardTypes
\* date.max + timedelta(days=1)
ApLastDay == Strptime(ApDayAt) = [year |-> 9999, month |-> 12, day |-> 31]

\* analysis.py:423-437
ApDay ==
  /\ ap.pc = "days"
  /\ ap.d <= Len(ap.ordered_dates)
  /\ ap' =
       IF ~ApHardDay
       THEN [ap EXCEPT !.d = @ + 1,
               !.combinations = CountUp(@, << ApRunIntensity, ApBikeIntensity >>)]
       ELSE IF ~StrptimeOk(ApDayAt)
       THEN [ap EXCEPT !.pc = "raised", !.raised = "ValueError"]
       ELSE IF ApLastDay
       THEN [ap EXCEPT !.pc = "raised", !.raised = "OverflowError"]
       ELSE LET next_day == NextDay(ApDayAt)
                next_run == day_intensity(TypesOn(ap.run_by_date, next_day))
                next_bike == day_intensity(TypesOn(ap.bike_by_date, next_day))
            IN [ap EXCEPT !.d = @ + 1,
                  !.combinations = CountUp(@, << ApRunIntensity, ApBikeIntensity >>),
                  !.day_after = DayAfterUp(@, ComboKey(ApRunIntensity, ApBikeIntensity),
                                           ComboKey(next_run, next_bike))]
  /\ FrameAp

\* analysis.py:439-441
ApWeeks ==
  /\ ap.pc = "days"
  /\ ap.d > Len(ap.ordered_dates)
  /\ ap' = [ap EXCEPT !.pc = "weeks", !.d = 1]
  /\ FrameAp

\* analysis.py:442-457: the defaultdict creates the entry of a week at the
\* first hard day of the week
ApWeek ==
  /\ ap.pc = "weeks"
  /\ ap.d <= Len(ap.ordered_dates)
  /\ ap' =
       IF ~StrptimeOk(ApDayAt)
       THEN [ap EXCEPT !.pc = "raised", !.raised = "ValueError"]
       ELSE LET week_key == get_week_key(ApDayAt)
                load == IF week_key \in DOMAIN ap.weekly THEN ap.weekly[week_key]
                        ELSE NewLoad
                hard == ApHardDay
            IN [ap EXCEPT !.d = @ + 1,
                  !.weekly =
                     IF hard
                     THEN [k \in DOMAIN @ \cup {week_key} |->
                             IF k = week_key
                             THEN WeekLoadUp(load, ApRunIntensity, ApBikeIntensity)
                             ELSE @[k]]
                     ELSE @]
  /\ FrameAp

\* analysis.py:459-524
ApReturn ==
  /\ ap.pc = "weeks"
  /\ ap.d > Len(ap.ordered_dates)
  /\ LET week_keys == SortedKeys(DOMAIN ap.weekly)
         after_keys == SortedKeys(DOMAIN ap.day_after)
     IN ap' = [ap EXCEPT
                 !.pc = "done",
                 !.out =
                    [keys |-> {"date_range", "same_day_combinations",
                               "day_after_patterns", "weekly_load"}
                              \cup (IF ap.multi_sport THEN {"hard_day_correlation"} ELSE {})
                              \cup (IF ap.injury_risk THEN {"risk_factors"} ELSE {})
                              \cup (IF ap.coach_analysis THEN {"coach_analysis"} ELSE {}),
                     date_range |->
                       [start |-> IF ap.ordered_dates = <<>> THEN <<>>
                                  ELSE ap.ordered_dates[1],
                        end |-> IF ap.ordered_dates = <<>> THEN <<>>
                                ELSE ap.ordered_dates[Len(ap.ordered_dates)]],
                     same_day_combinations |-> MostCommon(ap.combinations),
                     day_after_patterns |->
                       [k \in 1..Len(after_keys) |->
                          [key |-> after_keys[k], next |-> ap.day_after[after_keys[k]]]],
                     weekly_load |->
                       [k \in 1..Len(week_keys) |->
                          [week |-> week_keys[k], load |-> ap.weekly[week_keys[k]]]],
                     hard_day_correlation |-> HardDayCorrelation(ap.combinations),
                     risk_factors |->
                       IF ap.injury_risk THEN RiskFactors(ap.weekly, week_keys, 2)
                       ELSE <<>>]]
  /\ FrameAp

ApNext ==
  ApStart \/ ApSkip \/ ApRow \/ ApDates \/ ApDay \/ ApWeeks \/ ApWeek \/ ApReturn

SpecPattern == ApInit /\ [][ApNext]_vars

(***************************************************************************)
(* SpecFetch: the filter and classification loop of                        *)
(* fetch_workouts_in_chunks (commands/common.py:76-103) on every list of   *)
(* at most MaxFetched workouts of the pool.  The records of all_workouts   *)
(* are the objects the API returned; filtered holds the same objects, so   *)
(* the attachment of the classification shows in both lists.               *)
(***************************************************************************)
MaxFetched == 3

FetchedWorkout(sport_id, day, title, structure, tss, planned) ==
  [workoutTypeValueId |-> sport_id, workoutDay |-> day, title |-> title,
   description |-> <<>>, coachComments |-> <<>>, userTags |-> <<>>,
   structuredSteps |-> NoPayload, structuredWorkout |-> NoPayload,
   structure |-> structure, tssActual |-> tss, tssPlanned |-> planned,
   classification |-> NoClassification]

FwWorkoutPool ==
  { FetchedWorkout(3, D_jan05, T_threshold_intervals, NoPayload, Num(R(50)), Null),
    FetchedWorkout(3, D_jan06, T_tuesday_run,
                   DictPayload(FALSE, S_pace, Blocks_lt2, <<>>), Null, Num(R(45))),
    FetchedWorkout(2, D_jan05, T_latest_spin, NoPayload, Num(R(120)), Null),
    FetchedWorkout(9, D_jan06, T_gym, NoPayload, Null, Null),
    FetchedWorkout(3, Absent, T_vo2, NoPayload, NaS, Null) }

FwInputs == UNION { [1..n -> FwWorkoutPool] : n \in 0..MaxFetched }

NoLimit == [none |-> TRUE, v |-> RZero]
Limit(r) == [none |-> FALSE, v |-> r]

\* sport_filter, type_filter, min_tss, max_tss, classify_method
FwOptions ==
  { [sport_filter |-> "all", type_filter |-> <<>>, min_tss |-> NoLimit,
     max_tss |-> NoLimit, classify_method |-> "auto"],
    [sport_filter |-> "run", type_filter |-> S_lt2, min_tss |-> Limit(R(40)),
     max_tss |-> NoLimit, classify_method |-> "auto"],
    [sport_filter |-> "all", type_filter |-> <<>>, min_tss |-> NoLimit,
     max_tss |-> Limit(R(100)), classify_method |-> "ai"] }

FwInit ==
  /\ IdleButFw
  /\ \E ws \in FwInputs, options \in FwOptions :
       fw = [pc |-> "loop", all_workouts |-> ws, options |-> options,
             rules |-> classification_rules_from_config(<<>>),
             i |-> 1, filtered |-> <<>>, raised |-> "", out |-> <<>>]

\* list.sort(key=DaySortKey, reverse=True): stable, descending
RECURSIVE InsertByDayReverse(_, _)
InsertByDayReverse(sorted, w) ==
  IF sorted = <<>> THEN << w >>
  ELSE IF StrLess(DaySortKey(sorted[Len(sorted)]), DaySortKey(w))
       THEN Append(InsertByDayReverse(SubSeq(sorted, 1, Len(sorted) - 1), w),
                   sorted[Len(sorted)])
       ELSE Append(sorted, w)

RECURSIVE SortByDayReverse(_)
SortByDayReverse(ws) ==
  IF ws = <<>> THEN <<>>
  ELSE InsertByDayReverse(SortByDayReverse(SubSeq(ws, 1, Len(ws) - 1)), ws[Len(ws)])

FwInLoop == fw.pc = "loop" /\ fw.i <= Len(fw.all_workouts)
FwWorkout == fw.all_workouts[fw.i]
\* common.py:78-81
FwWrongSport ==
  /\ fw.options.sport_filter # "all"
  /\ ~SportIs(FwWorkout.workoutTypeValueId, fw.options.sport_filter)
\* common.py:91-92
FwWrongType ==
  /\ fw.options.type_filter # <<>>
  /\ FwWorkout.classification.type # fw.options.type_filter
\* common.py:94: workout.get("tssActual") or workout.get("tssPlanned")
FwTss == IF Truthy(FwWorkout.tssActual) THEN FwWorkout.tssActual
         ELSE FwWorkout.tssPlanned
FwLimited == ~fw.options.min_tss.none \/ ~fw.options.max_tss.none
\* common.py:95-98
FwOutOfRange ==
  \/ /\ ~fw.options.min_tss.none
     /\ (FwTss.t = "none" \/ RLt(FwTss.v, fw.options.min_tss.v))
  \/ /\ ~fw.options.max_tss.none
     /\ (FwTss.t = "none" \/ RLt(fw.options.max_tss.v, FwTss.v))

\* common.py:78-81: a workout of another sport is passed over unclassified
FwSkip ==
  /\ FwInLoop
  /\ FwWrongSport
  /\ fw' = [fw EXCEPT !.i = @ + 1]
  /\ FrameFw

\* common.py:83-89: the classification is attached to the record
FwClassify ==
  /\ FwInLoop
  /\ ~FwWrongSport
  /\ fw' = [fw EXCEPT
              !.pc = "filter",
              !.all_workouts[fw.i].classification =
                 classify_with_metadata(FwWorkout, fw.options.classify_method,
                                        fw.rules)]
  /\ FrameFw

\* common.py:91-98: the classified workout is filtered out
FwDrop ==
  /\ fw.pc = "filter"
  /\ \/ FwWrongType
     \/ (FwTss.t # "str" /\ FwOutOfRange)
  /\ fw' = [fw EXCEPT !.pc = "loop", !.i = @ + 1]
  /\ FrameFw

\* common.py:94-97: float(tss) raises on a string
FwRaise ==
  /\ fw.pc = "filter"
  /\ ~FwWrongType
  /\ FwLimited
  /\ FwTss.t = "str"
  /\ fw' = [fw EXCEPT !.pc = "raised", !.raised = "ValueError"]
  /\ FrameFw

\* common.py:91-100: the classified workout is kept
FwKeep ==
  /\ fw.pc = "filter"
  /\ ~FwWrongType
  /\ ~(FwLimited /\ FwTss.t = "str")
  /\ ~FwOutOfRange
  /\ fw' = [fw EXCEPT !.pc = "loop", !.i = @ + 1,
              !.filtered = Append(@, FwWorkout)]
  /\ FrameFw

\* common.py:102-103
FwReturn ==
  /\ fw.pc = "loop"
  /\ fw.i > Len(fw.all_workouts)
  /\ fw' = [fw EXCEPT !.pc = "done", !.filtered = SortByDayReverse(@),
              !.out = SortByDayReverse(fw.filtered)]
  /\ FrameFw

FwNext == FwSkip \/ FwClassify \/ FwDrop \/ FwRaise \/ FwKeep \/ FwReturn

SpecFetch == FwInit /\ [][FwNext]_vars

(***************************************************************************)
(* SpecAnalysis: any one call of analyze_zones, build_weekly_analysis,     *)
(* analyze_patterns, parse_workout_zones or of the fetch loop.             *)
(***************************************************************************)
AnalysisInit == AzInit \/ BwInit \/ ApInit \/ PzInit \/ FwInit

AnalysisNext == AzNext \/ BwNext \/ ApNext \/ PzCall \/ FwNext

SpecAnalysis == AnalysisInit /\ [][AnalysisNext]_vars

Records(ws) == { ws[k] : k \in 1..Len(ws) }

\* the members of a list, with their multiplicity
Members(ws) == [w \in Records(ws) |-> Cardinality({k \in 1..Len(ws) : ws[k] = w})]

\* the working copy holds records of the input, each at most as often
CopyOf(copy, ws) ==
  /\ Records(copy) \subseteq Records(ws)
  /\ \A w \in Records(copy) : Members(copy)[w] <= Members(ws)[w]

\* analyze_zones: the input list is the same after every step; filtered is
\* built from records of the input and no step changes one of its records
AzInputKept ==
  az.pc # "idle" =>
    /\ az'.workouts = az.workouts
    /\ CopyOf(az'.filtered, az.workouts)
    /\ az.pc # "start" => az'.filtered = az.filtered

\* build_weekly_analysis iterates over the input list itself
BwInputKept == bw.pc # "idle" => bw'.workouts = bw.workouts

\* analyze_patterns: as analyze_zones, with rows for filtered
ApInputKept ==
  ap.pc # "idle" =>
    /\ ap'.workouts = ap.workouts
    /\ CopyOf(ap'.rows, ap.workouts)
    /\ ap.pc # "start" => ap'.rows = ap.rows

\* parse_workout_zones returns with the workout as it was
PzInputKept == pz.pc # "idle" => pz'.workout = pz.workout

Unclassify(w) == [w EXCEPT !.classification = NoClassification]

\* the fetch loop changes no record but the one it is at, and of that one
\* only the classification field; the list keeps its length and order
FwOnlyClassification ==
  fw.pc # "idle" =>
    /\ Len(fw'.all_workouts) = Len(fw.all_workouts)
    /\ \A k \in 1..Len(fw.all_workouts) :
         /\ Unclassify(fw'.all_workouts[k]) = Unclassify(fw.all_workouts[k])
         /\ fw'.all_workouts[k] # fw.all_workouts[k] =>
              /\ k = fw.i
              /\ fw.all_workouts[k].classification = NoClassification
              /\ fw'.all_workouts[k].classification =
                   classify_with_metadata(fw.all_workouts[k],
                                          fw.options.classify_method, fw.rules)

\* C11: build_weekly_analysis, analyze_zones, analyze_patterns and
\* parse_workout_zones leave their input unchanged at every step of a call:
\* the input list holds the same records in the same order, and the sorted
\* and filtered working lists are copies made of the input's records.  The
\* only change to a workout record is the classification the fetch loop
\* attaches to the record it is processing.
ThmC11 ==
  [][AzInputKept /\ BwInputKept /\ ApInputKept /\ PzInputKept
       /\ FwOnlyClassification]_vars

\* analyze_zones has returned after filtering a workout out and sorting the
\* other two into the opposite order
WitC11 ==
  /\ az.pc = "done"
  /\ Len(az.workouts) = 3
  /\ Len(az.filtered) = 2
  /\ az.filtered[1] = az.workouts[3]
  /\ az.filtered[2] = az.workouts[1]
  /\ az.workouts[2] \notin Records(az.filtered)

\* analyze_patterns has returned a report after sorting its rows
WitC11_patterns ==
  /\ ap.pc = "done"
  /\ Len(ap.rows) = 2
  /\ Len(ap.workouts) = 3
  /\ ap.rows[1] = ap.workouts[3]
  /\ ap.rows[2] = ap.workouts[2]
  /\ ap.out.weekly_load # <<>>

\* build_weekly_analysis has returned two weeks from an input in descending
\* date order
WitC11_weekly ==
  /\ bw.pc = "done"
  /\ Len(bw.out.weeks) = 2
  /\ Len(bw.workouts) = 2
  /\ DayOf(bw.workouts[1]) = D_jan12
  /\ DayOf(bw.workouts[2]) = D_jan05

\* parse_workout_zones has scaled the zones of a structured workout
WitC11_zones ==
  /\ pz.pc = "done"
  /\ PzUsable
  /\ pz.out.raised = ""
  /\ RPos(pz.out.zones[S_lt2])

\* the fetch loop has returned: one record classified and kept, one passed
\* over unclassified, and the kept ones sorted into another order
WitC11_fetch ==
  /\ fw.pc = "done"
  /\ \E k \in 1..Len(fw.all_workouts) :
       fw.all_workouts[k].classification # NoClassification
  /\ \E k \in 1..Len(fw.all_workouts) :
       fw.all_workouts[k].classification = NoClassification
  /\ Len(fw.out) = 2
  /\ fw.out[1] = fw.all_workouts[3]
  /\ fw.out[2] = fw.all_workouts[1]

(***************************************************************************)
(* SpecWeekly, the report against the input (C21, C22, C23, C30).          *)
(***************************************************************************)
\* the workout reaches the bucket of its week: it has a day and passes the
\* sport filter
BwPasses(w) ==
  /\ DayOf(w) # <<>>
  /\ (bw.sport_filter = "all" \/ SportIs(w.workoutTypeValueId, bw.sport_filter))

\* the positions of the input whose workout reaches a bucket, and of those
\* the swim, bike and run workouts
BwBucketed == { k \in 1..Len(bw.workouts) : BwPasses(bw.workouts[k]) }
BwCounted ==
  { k \in BwBucketed : bw.workouts[k].workoutTypeValueId \in DOMAIN SPORT_MAP }
BwCountedIn(key) ==
  { k \in BwCounted : get_week_key(bw.workouts[k].workoutDay) = key }

BwDistance(w) == FirstTruthy(w.distance, w.distancePlanned).v
BwTss(w) == FirstTruthy(w.tssActual, w.tssPlanned).v

\* the sum of f over the workouts at the positions S
RECURSIVE BwSum(_, _)
BwSum(S, f) ==
  IF S = {} THEN RZero
  ELSE LET k == CHOOSE x \in S : TRUE
       IN RAdd(f[k], BwSum(S \ {k}, f))

BwDistances == [k \in 1..Len(bw.workouts) |-> BwDistance(bw.workouts[k])]
BwWeekDistance(key) == BwSum(BwCountedIn(key), BwDistances)

BwWeekHasRace(key) ==
  \E k \in BwCountedIn(key) : classification_type(bw.workouts[k]) = S_race

\* delta_i of the claim, from the input alone
BwClaimedDelta(weeks, i) ==
  IF i = 1 \/ BwWeekDistance(weeks[i - 1].week) = RZero THEN NoDelta
  ELSE SomeDelta(RMul(RDiv(RSub(BwWeekDistance(weeks[i].week),
                                BwWeekDistance(weeks[i - 1].week)),
                           BwWeekDistance(weeks[i - 1].week)), R(100)))

\* C21: in the report of build_weekly_analysis the weeks are the ISO weeks
\* of the workouts that reach a bucket, listed in ascending week-key order
\* whatever the input order, and the pattern at position i is classify_week
\* of the week's total distance and session count, of whether a counted
\* workout of the week is classified race, and of the percent change against
\* the week listed just before it (none for the first week and after a week
\* of total distance 0); so the first week and a week after a zero-distance
\* week have a pattern in {race, off, start}.
ThmC21 ==
  bw.pc = "done" =>
    LET weeks == bw.out.weeks
    IN /\ { weeks[i].week : i \in 1..Len(weeks) }
            = { get_week_key(bw.workouts[k].workoutDay) : k \in BwBucketed }
       /\ \A i \in 2..Len(weeks) : StrLess(weeks[i - 1].week, weeks[i].week)
       /\ \A i \in 1..Len(weeks) :
            /\ weeks[i].pattern =
                 classify_week(BwWeekDistance(weeks[i].week),
                               Cardinality(BwCountedIn(weeks[i].week)),
                               BwWeekHasRace(weeks[i].week),
                               BwClaimedDelta(weeks, i))
            /\ (i = 1 \/ weeks[i - 1].total_distance = RZero)
                 => weeks[i].pattern \in {"race", "off", "start"}

\* an input in descending date order: the second listed week triples the
\* distance of the first and is a build week
WitC21 ==
  /\ bw.pc = "done"
  /\ Len(bw.workouts) = 2
  /\ DayOf(bw.workouts[1]) = D_jan12
  /\ DayOf(bw.workouts[2]) = D_jan05
  /\ Len(bw.out.weeks) = 2
  /\ bw.out.weeks[1].week = <<"2","0","2","6","-","W","0","2">>
  /\ bw.out.weeks[2].pattern = "build"

\* a 30 km week listed after a week that holds a strength session only is a
\* start week
WitC21_zero ==
  /\ bw.pc = "done"
  /\ Len(bw.out.weeks) = 2
  /\ bw.out.weeks[1].total_distance = RZero
  /\ bw.out.weeks[1].strength_sessions = 1
  /\ bw.out.weeks[2].total_distance = R(30000)
  /\ bw.out.weeks[2].pattern = "start"

\* a week with a bike race is a race week
WitC21_race ==
  /\ bw.pc = "done"
  /\ \E i \in 1..Len(bw.out.weeks) :
       bw.out.weeks[i].pattern = "race" /\ bw.out.weeks[i].total_sessions = 1

\* the week buckets without the counter `field`
BwButCounter(bucket, field) == [bucket EXCEPT ![field] = 0]

\* a step of the loop on a strength or rest workout with a date: the counter
\* of its week goes up by one and nothing else of any week changes but the
\* key and the dates of that week
BwCounterStep(sport_id, field) ==
  (/\ BwInLoop
   /\ bw.sport_filter = "all"
   /\ DayOf(BwWorkout) # <<>>
   /\ BwDayOk
   /\ BwWorkout.workoutTypeValueId = sport_id)
  => /\ bw'.pc = "loop"
     /\ DOMAIN bw'.weeks = DOMAIN bw.weeks \cup {BwKey}
     /\ \A key \in DOMAIN bw.weeks \ {BwKey} : bw'.weeks[key] = bw.weeks[key]
     /\ bw'.weeks[BwKey][field] = WeekAt(bw.weeks, BwKey)[field] + 1
     /\ BwButCounter(bw'.weeks[BwKey], field) = BwButCounter(BwBucket, field)
     /\ bw'.weeks[BwKey].by_sport = WeekAt(bw.weeks, BwKey).by_sport
     /\ bw'.weeks[BwKey].total_distance = WeekAt(bw.weeks, BwKey).total_distance
     /\ bw'.weeks[BwKey].total_tss = WeekAt(bw.weeks, BwKey).total_tss
     /\ bw'.weeks[BwKey].total_sessions = WeekAt(bw.weeks, BwKey).total_sessions

\* the workouts of the input with a date and the sport code in the week
BwCoded(sport_id, key) ==
  { k \in BwBucketed : /\ bw.workouts[k].workoutTypeValueId = sport_id
                       /\ get_week_key(bw.workouts[k].workoutDay) = key }

\* the report counts the strength and rest workouts of each week
BwCounters ==
  (bw.pc = "done" /\ bw.sport_filter = "all") =>
    \A i \in 1..Len(bw.out.weeks) :
      /\ bw.out.weeks[i].strength_sessions
           = Cardinality(BwCoded(9, bw.out.weeks[i].week))
      /\ bw.out.weeks[i].rest_days = Cardinality(BwCoded(7, bw.out.weeks[i].week))

\* C22: with the sport filter 'all', every workout with a date and the
\* strength code (9) adds exactly 1 to strength_sessions of its ISO week,
\* every one with the rest code (7) adds exactly 1 to rest_days, and neither
\* changes total_distance, total_tss, total_sessions, any per-sport entry or
\* any quality_workouts list, whatever distance, TSS or classification the
\* workout carries.
ThmC22 ==
  /\ []BwCounters
  /\ [][BwCounterStep(9, "strength_sessions") /\ BwCounterStep(7, "rest_days")]_vars

\* a run and a strength session with a distance of 5 km and a TSS of 30 in
\* one week: one session, 10 km, one strength session
WitC22 ==
  /\ bw.pc = "done"
  /\ bw.sport_filter = "all"
  /\ Len(bw.out.weeks) = 1
  /\ bw.out.weeks[1].strength_sessions = 1
  /\ bw.out.weeks[1].total_sessions = 1
  /\ bw.out.weeks[1].total_distance = R(10000)
  /\ bw.out.weeks[1].total_tss = R(50)

\* a week of a rest day alone
WitC22_rest ==
  /\ bw.pc = "done"
  /\ bw.sport_filter = "all"
  /\ Len(bw.out.weeks) = 1
  /\ bw.out.weeks[1].rest_days = 2
  /\ bw.out.weeks[1].total_sessions = 0

\* one pass of the loop of analysis.py:90-140 over a workout with a valid
\* day and numeric distances, as a function of the buckets
WeeklyStep(weeks, w, sport_filter) ==
  LET sport == IF w.workoutTypeValueId \in DOMAIN SPORT_MAP
               THEN SPORT_MAP[w.workoutTypeValueId] ELSE "None"
      key == get_week_key(w.workoutDay)
      bucket == WeekBucket(weeks, w.workoutDay)
  IN IF DayOf(w) = <<>> \/ (sport_filter # "all" /\ sport # sport_filter) THEN weeks
     ELSE IF w.workoutTypeValueId = 9
     THEN PutWeek(weeks, key, [bucket EXCEPT !.strength_sessions = @ + 1])
     ELSE IF w.workoutTypeValueId = 7
     THEN PutWeek(weeks, key, [bucket EXCEPT !.rest_days = @ + 1])
     ELSE IF sport \notin SwimBikeRun THEN PutWeek(weeks, key, bucket)
     ELSE PutWeek(weeks, key, AddWorkout(bucket, w, sport))

RECURSIVE WeeklyBuckets(_, _)
WeeklyBuckets(ws, sport_filter) ==
  IF ws = <<>> THEN [k \in {} |-> NewWeek]
  ELSE WeeklyStep(WeeklyBuckets(SubSeq(ws, 1, Len(ws) - 1), sport_filter),
                  ws[Len(ws)], sport_filter)

\* analysis.py:143-175 over the rows from position j on
RECURSIVE WeeklyRows(_, _, _)
WeeklyRows(ordered, j, previous_total) ==
  IF j > Len(ordered) THEN <<>>
  ELSE << WeekRow(ordered[j], previous_total) >>
       \o WeeklyRows(ordered, j + 1,
                     [none |-> FALSE, v |-> ordered[j].total_distance])

\* the report build_weekly_analysis returns for a list it does not raise on
WeeklyReport(ws, sport_filter) ==
  LET weeks == WeeklyBuckets(ws, sport_filter)
      keys == SortedKeys(DOMAIN weeks)
      rows == WeeklyRows([k \in 1..Len(keys) |-> weeks[keys[k]]], 1, NoTotal)
  IN [weeks |-> rows, summary |-> WeeklySummary(rows)]

\* the list without the workout at position k
Without(ws, k) == SubSeq(ws, 1, k - 1) \o SubSeq(ws, k + 1, Len(ws))

\* the positions of the workouts whose sport code is none of 1, 2, 3, 7, 9
BwOtherSport ==
  { k \in 1..Len(bw.workouts) :
      bw.workouts[k].workoutTypeValueId \notin {1, 2, 3, 7, 9} }

\* the step-by-step report is the report of the whole list
BwReportIsWeeklyReport ==
  bw.pc = "done" => bw.out = WeeklyReport(bw.workouts, bw.sport_filter)

\* C23: a workout whose sport code is none of swim (1), bike (2), run (3),
\* strength (9) or rest (7) is skipped entirely: the report of a collection
\* that contains it is the report of the collection with it removed.
OrigC23 ==
  bw.pc = "done" =>
    \A k \in BwOtherSport :
      bw.out = WeeklyReport(Without(bw.workouts, k), bw.sport_filter)

\* what the code does keep: a workout of another sport changes nothing in a
\* report whose weeks are all opened by other workouts as well, or under a
\* sport filter
BwOtherSkipped ==
  bw.pc = "done" =>
    \A k \in BwOtherSport :
      \/ bw.out = WeeklyReport(Without(bw.workouts, k), bw.sport_filter)
      \/ /\ bw.sport_filter = "all"
         /\ BwPasses(bw.workouts[k])
         /\ \A m \in BwBucketed \ BwOtherSport :
              get_week_key(bw.workouts[m].workoutDay)
                # get_week_key(bw.workouts[k].workoutDay)

(***************************************************************************)
(* SpecDSL, the lengths and targets of the compiled steps (C24, C25).      *)
(***************************************************************************)
\* the length the length grammar gives a duration token, as a compiled step
\* carries it
GrammarLength(token) ==
  [value |-> Num(R(parse_length(token).value)), unit |-> parse_length(token).unit]

\* the steps of the block owned by entry i are compiled from these tokens
DslTokens(i) ==
  IF DslIsWarmup(i)
  THEN [j \in 1..(DslRunEnd(i) - i + 1) |-> dsl.steps[i + j - 1].duration]
  ELSE IF dsl.steps[i].type = S_interval
       THEN << dsl.steps[i].on, dsl.steps[i].off >>
       ELSE << dsl.steps[i].duration >>

\* C24 as stated: for every DSL entry of every type (warmup, steady,
\* cooldown, both legs of an interval) the length of the compiled step is
\* the (value, unit) pair of the length grammar for the entry's duration
\* token.
OrigC24 ==
  dsl.pc = "done" =>
    \A k \in 1..Len(dsl.out.structure) :
      LET b == dsl.out.structure[k]
          tokens == DslTokens(DslOwner(k))
      IN /\ Len(b.steps) = Len(tokens)
         /\ \A j \in 1..Len(b.steps) : b.steps[j].length = GrammarLength(tokens[j])

\* what the compiler does: warmup steps and interval legs carry the pair of
\* the grammar; steady and cooldown steps carry its value with the unit
\* second, whatever the token's unit
DslLengths ==
  dsl.pc = "done" =>
    \A k \in 1..Len(dsl.out.structure) :
      LET b == dsl.out.structure[k]
          i == DslOwner(k)
          tokens == DslTokens(i)
      IN /\ Len(b.steps) = Len(tokens)
         /\ \A j \in 1..Len(b.steps) :
              b.steps[j].length =
                IF dsl.steps[i].type \in {S_steady, S_cooldown}
                THEN [GrammarLength(tokens[j]) EXCEPT !.unit = S_second]
                ELSE GrammarLength(tokens[j])

\* a steady entry '5km' compiled to 5000 second
DslSteadyKmInSeconds ==
  /\ dsl.pc = "done"
  /\ Len(dsl.steps) = 1
  /\ dsl.steps[1] = Steady(<<"5","k","m">>, <<"8","0","%"," ","T","P">>)
  /\ dsl.out.structure[1].steps[1].length = [value |-> Num(R(5000)), unit |-> S_second]

\* the target tokens the steps of the block owned by entry i are compiled from
DslTargetTokens(i) ==
  IF DslIsWarmup(i)
  THEN [j \in 1..(DslRunEnd(i) - i + 1) |-> dsl.steps[i + j - 1].target]
  ELSE IF dsl.steps[i].type = S_interval
       THEN << dsl.steps[i].on_target, dsl.steps[i].off_target >>
       ELSE << dsl.steps[i].target >>

\* the target list the target grammar gives a token: both bounds of a range
\* 'a-b', minValue only for a single number, no target for an absent token
GrammarTargets(token) ==
  IF token = Absent THEN <<>>
  ELSE IF RangeMatch(token).ok
       THEN << Tgt(Num(R(RangeMatch(token).lo)), Num(R(RangeMatch(token).hi))) >>
       ELSE << Tgt(Num(R(DigitsVal(LeadingDigits(token)))), Null) >>

\* the token is absent, a range or starts with a number
IsTargetToken(token) == token = Absent \/ LeadingDigits(token) # <<>>

\* C25 as stated: a range 'a-b' compiles to minValue a and maxValue b, for
\* the on-target and the off-target of an interval alike; a single number p
\* compiles to minValue p only; an absent target compiles to an empty
\* target list.
OrigC25 ==
  dsl.pc = "done" =>
    \A k \in 1..Len(dsl.out.structure) :
      LET b == dsl.out.structure[k]
          tokens == DslTargetTokens(DslOwner(k))
      IN \A j \in 1..Len(b.steps) :
           (j <= Len(tokens) /\ IsTargetToken(tokens[j])) =>
             b.steps[j].targets = GrammarTargets(tokens[j])

\* what the compiler does: the on-target of an interval carries the target
\* list of the grammar; every other target carries the first number only
DslTargets ==
  dsl.pc = "done" =>
    \A k \in 1..Len(dsl.out.structure) :
      LET b == dsl.out.structure[k]
          i == DslOwner(k)
          tokens == DslTargetTokens(i)
      IN \A j \in 1..Len(b.steps) :
           (j <= Len(tokens) /\ IsTargetToken(tokens[j])) =>
             b.steps[j].targets =
               IF dsl.steps[i].type = S_interval /\ j = 1
               THEN GrammarTargets(tokens[j])
               ELSE IF tokens[j] = Absent THEN <<>>
                    ELSE << Tgt(Num(R(DigitsVal(LeadingDigits(tokens[j])))), Null) >>

\* an interval with on_target '94-100% TP' and off_target '70-75% TP': the
\* on step keeps 94 and 100, the off step keeps 70 only
DslOffRangeLost ==
  /\ dsl.pc = "done"
  /\ Len(dsl.steps) = 1
  /\ dsl.steps[1].on_target = <<"9","4","-","1","0","0","%"," ","T","P">>
  /\ dsl.steps[1].off_target = <<"7","0","-","7","5","%"," ","T","P">>
  /\ dsl.out.structure[1].steps[1].targets = << Tgt(Num(R(94)), Num(R(100))) >>
  /\ dsl.out.structure[1].steps[2].targets = << Tgt(Num(R(70)), Null) >>

(***************************************************************************)
(* SpecPattern, the day intensities (C26).                                 *)
(***************************************************************************)
\* the values the spec gives a day intensity
DayIntensities == { S_vo2, S_lt2, S_lt1, S_easy, S_other, S_rest }

\* the per-day type lists are complete
ApByDate == ap.pc \in {"days", "weeks", "done"}

\* the type lists of a day, run and bike
ApTypeLists == { TypesOn(by_date, day) :
                   by_date \in {ap.run_by_date, ap.bike_by_date}, day \in ap.all_dates }

\* the types in another order
Reordered(types) ==
  { [k \in 1..Len(types) |-> types[p[k]]] : p \in Permutations(1..Len(types)) }

\* C26 as stated: every day intensity is one of vo2, lt2, lt1, easy, other,
\* rest; it is rest iff the sport has no workout that day and otherwise the
\* highest-ranked type of the sport's workouts of the day; it does not
\* depend on the order of the day's workouts.
OrigC26 ==
  ApByDate =>
    /\ \A types \in ApTypeLists :
         LET v == day_intensity(types)
         IN /\ v \in DayIntensities
            /\ (v = S_rest) <=> (types = <<>>)
            /\ types # <<>> =>
                 /\ \E k \in 1..Len(types) : types[k] = v
                 /\ \A k \in 1..Len(types) : IntensityRank(types[k]) <= IntensityRank(v)
            /\ \A other \in Reordered(types) : day_intensity(other) = v
    /\ \A k \in 1..Len(ap.combinations) :
         /\ ap.combinations[k].key[1] \in DayIntensities
         /\ ap.combinations[k].key[2] \in DayIntensities

\* what the code computes: rest iff the sport has no workout that day,
\* otherwise the first of the day's types that no other type outranks,
\* where every type outside vo2, lt2, lt1, easy ranks with other; the value
\* is one of the six and independent of the order when the day's types are
\* all among vo2, lt2, lt1, easy, other
ApDayIntensity ==
  ApByDate =>
    \A types \in ApTypeLists :
      LET v == day_intensity(types)
      IN /\ (v = S_rest) <=> (types = <<>>)
         /\ types # <<>> =>
              /\ \E k \in 1..Len(types) :
                   /\ types[k] = v
                   /\ \A m \in 1..(k - 1) : IntensityRank(types[m]) < IntensityRank(v)
              /\ \A k \in 1..Len(types) : IntensityRank(types[k]) <= IntensityRank(v)
         /\ (\A k \in 1..Len(types) : types[k] \in DayIntensities) =>
              /\ v \in DayIntensities
              /\ \A other \in Reordered(types) : day_intensity(other) = v

\* a day whose only run is classified race: the run intensity reported is
\* race
ApRaceDay ==
  /\ ap.pc = "done"
  /\ Len(ap.rows) = 1
  /\ ap.out.same_day_combinations = << [key |-> << S_race, S_rest >>, count |-> 1] >>

\* the run classified race and the run without a classification of
\* 2026-01-06 in both orders: race/rest one way, other/rest the other way
ApRaceFirst ==
  /\ ap.pc = "done"
  /\ Len(ap.workouts) = 2
  /\ ap.workouts[1] = PatternWorkout(3, D_jan06, Classified(S_race))
  /\ ap.workouts[2] = PatternWorkout(3, D_jan06, Unclassified)
  /\ ap.out.same_day_combinations = << [key |-> << S_race, S_rest >>, count |-> 1] >>
ApOtherFirst ==
  /\ ap.pc = "done"
  /\ Len(ap.workouts) = 2
  /\ ap.workouts[1] = PatternWorkout(3, D_jan06, Unclassified)
  /\ ap.workouts[2] = PatternWorkout(3, D_jan06, Classified(S_race))
  /\ ap.out.same_day_combinations = << [key |-> << S_other, S_rest >>, count |-> 1] >>

(***************************************************************************)
(* SpecPattern, the day-after histogram (C27).                             *)
(***************************************************************************)
\* the calendar day after a day, from the calendar
CalendarNext(day) ==
  LET dt == Strptime(day)
  IN FormatDate(IF dt.day < DaysInMonth(dt.year, dt.month)
                THEN [dt EXCEPT !.day = @ + 1]
                ELSE IF dt.month < 12
                     THEN [dt EXCEPT !.month = @ + 1, !.day = 1]
                     ELSE [year |-> dt.year + 1, month |-> 1, day |-> 1])

\* the combination of a day of the calendar; a sport without a workout that
\* day counts as rest
ApCombo(day) ==
  ComboKey(day_intensity(TypesOn(ap.run_by_date, day)),
           day_intensity(TypesOn(ap.bike_by_date, day)))

\* the run or the bike day intensity of the day is lt2 or vo2
ApHard(day) ==
  \/ day_intensity(TypesOn(ap.run_by_date, day)) \in HardTypes
  \/ day_intensity(TypesOn(ap.bike_by_date, day)) \in HardTypes

\* the days the day loop has been through
ApDaysDone ==
  IF ap.pc = "days" THEN { ap.ordered_dates[k] : k \in 1..(ap.d - 1) }
  ELSE ap.all_dates

\* the hard days among them with the combination key whose day after has
\* the combination next
ApHardDays == { day \in ApDaysDone : ApHard(day) }
ApAfter(key, next) ==
  { day \in ApHardDays : ApCombo(day) = key /\ ApCombo(CalendarNext(day)) = next }

\* the sum of all day-after counts
RECURSIVE ApAfterSum(_)
ApAfterSum(keys) ==
  IF keys = {} THEN 0
  ELSE LET key == CHOOSE k \in keys : TRUE
       IN CountSum(ap.day_after[key]) + ApAfterSum(keys \ {key})

WitC27_boundary ==
  /\ ap.pc = "done"
  /\ Len(ap.rows) = 3
  /\ ap.out.day_after_patterns =
       << [key |-> ComboKey(S_lt2, S_rest),
           next |-> << [key |-> ComboKey(S_rest, S_rest), count |-> 1] >>],
          [key |-> ComboKey(S_rest, S_lt2),
           next |-> << [key |-> ComboKey(S_rest, S_rest), count |-> 1] >>],
          [key |-> ComboKey(S_vo2, S_rest),
           next |-> << [key |-> ComboKey(S_rest, S_lt2), count |-> 1] >>] >>

(***************************************************************************)
(* SpecPattern, the weekly load and the risk factors (C28, C29).           *)
(***************************************************************************)
\* the days of the report that fall in the ISO week
ApDaysOf(week) == { day \in ap.all_dates : get_week_key(day) = week }

\* the number of days of the week on which the sport's intensity is the zone
ApZoneDays(week, by_date, zone) ==
  Cardinality({ day \in ApDaysOf(week) : day_intensity(TypesOn(by_date, day)) = zone })

\* the number of (day, sport) pairs of the week whose intensity is lt2 or vo2
ApHardPairs(week) ==
  ApZoneDays(week, ap.run_by_date, S_lt2) + ApZoneDays(week, ap.run_by_date, S_vo2)
  + ApZoneDays(week, ap.bike_by_date, S_lt2) + ApZoneDays(week, ap.bike_by_date, S_vo2)

\* C28 as stated: every week row reports run_lt2, run_vo2, bike_lt2 and
\* bike_vo2 (the number of days of the week on which the sport's day
\* intensity is that zone) together with total_hard, and total_hard is the
\* sum of the four counts.
OrigC28 ==
  ap.pc = "done" =>
    \A k \in 1..Len(ap.out.weekly_load) :
      LET row == ap.out.weekly_load[k]
      IN /\ {"run_lt2", "run_vo2", "bike_lt2", "bike_vo2", "total_hard"}
              \subseteq DOMAIN row.load
         /\ row.load.run_lt2 = ApZoneDays(row.week, ap.run_by_date, S_lt2)
         /\ row.load.run_vo2 = ApZoneDays(row.week, ap.run_by_date, S_vo2)
         /\ row.load.bike_lt2 = ApZoneDays(row.week, ap.bike_by_date, S_lt2)
         /\ row.load.bike_vo2 = ApZoneDays(row.week, ap.bike_by_date, S_vo2)
         /\ row.load.total_hard = row.load.run_lt2 + row.load.run_vo2
                                  + row.load.bike_lt2 + row.load.bike_vo2

\* what the code reports: the three counts run_lt2, run_vo2 and bike_lt2
\* and total_hard, the number of hard (day, sport) pairs of the week, VO2
\* rides included, for exactly the weeks that have such a pair, in
\* ascending order
ApWeeklyLoad ==
  ap.pc = "done" =>
    /\ { ap.out.weekly_load[k].week : k \in 1..Len(ap.out.weekly_load) } =
         { get_week_key(day) : day \in { d \in ap.all_dates : ApHard(d) } }
    /\ \A k \in 1..Len(ap.out.weekly_load) :
         LET row == ap.out.weekly_load[k]
         IN /\ DOMAIN row.load = {"run_lt2", "bike_lt2", "run_vo2", "total_hard"}
            /\ row.load.run_lt2 = ApZoneDays(row.week, ap.run_by_date, S_lt2)
            /\ row.load.run_vo2 = ApZoneDays(row.week, ap.run_by_date, S_vo2)
            /\ row.load.bike_lt2 = ApZoneDays(row.week, ap.bike_by_date, S_lt2)
            /\ row.load.total_hard = ApHardPairs(row.week)
            /\ row.load.total_hard =
                 row.load.run_lt2 + row.load.run_vo2 + row.load.bike_lt2
                 + ApZoneDays(row.week, ap.bike_by_date, S_vo2)
            /\ \A m \in 1..(k - 1) : StrLess(ap.out.weekly_load[m].week, row.week)

\* the VO2 ride of 2026-01-05 alone: total_hard 1 and three counts of 0
ApBikeVo2Week ==
  /\ ap.pc = "done"
  /\ ap.workouts = << PatternWorkout(2, D_jan05, Classified(S_vo2)) >>
  /\ ap.out.weekly_load =
       << [week |-> <<"2","0","2","6","-","W","0","2">>,
           load |-> [run_lt2 |-> 0, bike_lt2 |-> 0, run_vo2 |-> 0, total_hard |-> 1]] >>

\* the ISO week immediately before the ISO week of the day
PreviousWeek(day) ==
  LET dt == Strptime(day)
  IN get_week_key(FormatDate(FromOrdinal(Ordinal(dt.year, dt.month, dt.day) - 7,
                                         dt.year)))

\* the risk factors of the report for the week
ApFactorsOf(week) == SelectSeq(ap.out.risk_factors, LAMBDA f : f.week = week)

\* a rise from prev to curr of at least pct percent of prev
RiseAtLeast(prev, curr, pct) == (curr - prev) * 100 >= pct * prev

\* the risk factors of the week are the ones due against a week of
\* total_hard prev
ApFactorDue(day, prev) ==
  LET week == get_week_key(day)
      curr == ApHardPairs(week)
      due == prev > 0 /\ RiseAtLeast(prev, curr, 40)
  IN /\ Len(ApFactorsOf(week)) = (IF due THEN 1 ELSE 0)
     /\ due => ApFactorsOf(week)[1].severity =
                 (IF RiseAtLeast(prev, curr, 60) THEN "high" ELSE "medium")

\* C29 as stated: with injury_risk requested, exactly one risk factor is
\* emitted for week w iff the total_hard of the ISO week immediately before
\* w is positive and the increase is at least 40 percent, with severity
\* high iff it is at least 60 percent; none for a week whose immediately
\* preceding calendar week had no hard session; the risk_factors key is
\* present iff injury_risk is requested.
OrigC29 ==
  ap.pc = "done" =>
    /\ ("risk_factors" \in ap.out.keys) <=> ap.injury_risk
    /\ ap.injury_risk =>
         \A day \in ap.all_dates : ApFactorDue(day, ApHardPairs(PreviousWeek(day)))

\* the total_hard of the last week before the week of the day that has a
\* hard session, 0 when there is none
ApPreviousListed(day) ==
  LET earlier == { w \in DOMAIN ap.weekly : StrLess(w, get_week_key(day)) }
  IN IF earlier = {} THEN 0
     ELSE ap.weekly[CHOOSE w \in earlier : \A v \in earlier : v = w \/ StrLess(v, w)]
            .total_hard

\* what the code does: each week with a hard session is compared with the
\* last earlier week that has a hard session, however many calendar weeks
\* lie between them
ApRiskFactors ==
  ap.pc = "done" =>
    /\ ("risk_factors" \in ap.out.keys) <=> ap.injury_risk
    /\ ~ap.injury_risk => ap.out.risk_factors = <<>>
    /\ ap.injury_risk =>
         \A day \in ap.all_dates : ApFactorDue(day, ApPreviousListed(day))

\* the threshold run of 2026-01-05 (week 2), then the VO2 run of 2026-01-31
\* and the threshold ride of 2026-02-01 (week 5): a risk factor for week 5
\* although weeks 3 and 4 have no hard session
ApSpikeAcrossGap ==
  /\ ap.pc = "done"
  /\ ap.injury_risk
  /\ Len(ap.out.weekly_load) = 2
  /\ ap.out.weekly_load[1].week = <<"2","0","2","6","-","W","0","2">>
  /\ ap.out.weekly_load[2].week = <<"2","0","2","6","-","W","0","5">>
  /\ ap.out.risk_factors =
       << [type |-> "hard_session_spike", week |-> <<"2","0","2","6","-","W","0","5">>,
           increase_pct |-> 1000, severity |-> "high"] >>

\* the threshold ride of 2026-01-25 (week 4) followed by the two hard
\* sessions of week 5: the risk factor of two consecutive weeks
ApSpikeNextWeek ==
  /\ ap.pc = "done"
  /\ ap.injury_risk
  /\ Len(ap.out.weekly_load) = 2
  /\ ap.out.weekly_load[1].week = <<"2","0","2","6","-","W","0","4">>
  /\ Len(ap.out.risk_factors) = 1
  /\ ap.out.risk_factors[1].week = <<"2","0","2","6","-","W","0","5">>

(***************************************************************************)
(* SpecWeekly, conservation in the weekly report (C30).                    *)
(***************************************************************************)
\* the positions of the input gone through, and the week rows as they stand
BwDone == IF bw.pc = "loop" THEN 1..(bw.i - 1) ELSE 1..Len(bw.workouts)
BwRowsNow ==
  IF bw.pc = "loop" THEN { bw.weeks[key] : key \in DOMAIN bw.weeks }
  ELSE IF bw.pc = "rows" THEN Records(bw.ordered)
  ELSE Records(bw.out.weeks)

\* the swim, bike and run workouts gone through that reach the week, and
\* those of one sport
BwSessionsOf(key) ==
  { k \in BwCounted \cap BwDone : get_week_key(bw.workouts[k].workoutDay) = key }
BwSportSessions(key, sport) ==
  { k \in BwSessionsOf(key) : SportIs(bw.workouts[k].workoutTypeValueId, sport) }

\* the sum of the by_type distances of a sport
RECURSIVE ByTypeSum(_)
ByTypeSum(by_type) ==
  IF by_type = <<>> THEN RZero
  ELSE RAdd(by_type[1].distance, ByTypeSum(Tail(by_type)))

\* the sum of total_sessions over a set of week rows
RECURSIVE SessionSum(_)
SessionSum(rows) ==
  IF rows = {} THEN 0
  ELSE LET row == CHOOSE r \in rows : TRUE
       IN row.total_sessions + SessionSum(rows \ {row})

\* C30: after any sequence of workouts, in every week total_distance,
\* total_sessions and total_tss are the sums of the swim, bike and run
\* values; for every sport the by_type distances sum to the sport's distance
\* and there are at most as many quality_workouts as sessions; every dated
\* swim, bike or run workout that passes the sport filter is counted in the
\* ISO week of its workoutDay and in no other, so the total_sessions of all
\* weeks sum to the number of such workouts.
ThmC30 ==
  bw.pc \in {"loop", "rows", "done"} =>
    /\ \A row \in BwRowsNow :
         /\ row.total_distance =
              RAdd(RAdd(row.by_sport["swim"].distance, row.by_sport["bike"].distance),
                   row.by_sport["run"].distance)
         /\ row.total_sessions =
              row.by_sport["swim"].sessions + row.by_sport["bike"].sessions
              + row.by_sport["run"].sessions
         /\ row.total_tss =
              RAdd(RAdd(row.by_sport["swim"].tss, row.by_sport["bike"].tss),
                   row.by_sport["run"].tss)
         /\ \A s \in SwimBikeRun :
              /\ ByTypeSum(row.by_sport[s].by_type) = row.by_sport[s].distance
              /\ Len(row.by_sport[s].quality_workouts) <= row.by_sport[s].sessions
              /\ row.by_sport[s].sessions = Cardinality(BwSportSessions(row.week, s))
         /\ row.total_sessions = Cardinality(BwSessionsOf(row.week))
         /\ \A other \in BwRowsNow : other.week = row.week => other = row
    /\ \A k \in BwCounted \cap BwDone :
         \E row \in BwRowsNow : row.week = get_week_key(bw.workouts[k].workoutDay)
    /\ SessionSum(BwRowsNow) = Cardinality(BwCounted \cap BwDone)

\* three counted workouts in two weeks, two sports in the first of them,
\* one of the workouts a quality workout
WitC30 ==
  /\ bw.pc = "done"
  /\ Cardinality(BwCounted) = 3
  /\ Len(bw.out.weeks) = 2
  /\ bw.out.weeks[1].total_sessions = 2
  /\ bw.out.weeks[1].by_sport["run"].sessions = 1
  /\ bw.out.weeks[1].by_sport["swim"].sessions = 1
  /\ Len(bw.out.weeks[1].by_sport["run"].quality_workouts) = 1
  /\ bw.out.weeks[1].total_distance = R(12000)
  /\ bw.out.weeks[2].total_sessions = 1

\* two runs of one week with different types: two by_type entries that sum
\* to the run distance, fewer quality workouts than sessions
WitC30_types ==
  /\ bw.pc = "done"
  /\ Len(bw.workouts) = 2
  /\ Len(bw.out.weeks) = 1
  /\ bw.out.weeks[1].by_sport["run"].distance = R(16000)
  /\ Len(bw.out.weeks[1].by_sport["run"].by_type) = 2
  /\ bw.out.weeks[1].by_sport["run"].sessions = 2
  /\ Len(bw.out.weeks[1].by_sport["run"].quality_workouts) = 1

=============================================================================
